---- MODULE Spec2Model ----
(***************************************************************************)
(* Swapchain lifecycle and per-frame loop of the caterpie renderer.        *)
(*                                                                         *)
(* Engine::draw_frame (engine/engine.rs) drives Configuration              *)
(* (engine/configuration.rs); App::window_event (app.rs) calls draw_frame  *)
(* and then dispatches the window event.  The Vulkan driver and the GPU    *)
(* are the environment: results of acquire/submit/present and the surface  *)
(* capabilities are inputs, the GPU completes submissions asynchronously.  *)
(***************************************************************************)
EXTENDS Integers, Sequences, FiniteSets, TLC

MAX_FLIGHT_FENCES == 2

(* ------------------------------ bounds --------------------------------- *)
MaxImages == 3        \* most images a swapchain is given
MaxRecreations == 2   \* recreate_swapchain runs explored

WindowSizes == { <<800, 600>> }

(* ------------------------------ handles -------------------------------- *)
\* A native handle: its kind, an id unique among the objects of that kind
\* (the swapchain generation it was created in and its number within that
\* generation), and the ids of the objects it was created on.
Handle(kind, id, refs) == [kind |-> kind, id |-> id, refs |-> refs]

Null == Handle("null", <<0, 0>>, <<>>)

\* Option<T>
None == <<>>

Some(value) == <<value>>

Call(fn, arg) == [fn |-> fn, arg |-> arg]

Log(m, fn, arg) == [m EXCEPT !.calls = Append(@, Call(fn, arg))]

Range(s) == { s[i] : i \in 1..Len(s) }

Count(s, fn) == Cardinality({ i \in 1..Len(s) : s[i].fn = fn })

FirstIndex(s, fn) ==
  IF \E i \in 1..Len(s) : s[i].fn = fn
  THEN CHOOSE i \in 1..Len(s) : s[i].fn = fn /\ \A j \in 1..(i - 1) : s[j].fn # fn
  ELSE 0

\* vkCreate*: a fresh live object.
NewHandle(m, kind, refs) ==
  LET same == { h \in m.vk.alive : h.kind = kind /\ h.id[1] = m.vk.generation }
  IN Handle(kind, <<m.vk.generation, Cardinality(same) + 1>>, refs)

\* The objects a vector-building step creates, one per i in 1..n.
NewHandles(m, kind, n, refs(_)) ==
  [i \in 1..n |-> Handle(kind, <<m.vk.generation, i>>, refs(i))]

Created(m, h) == [m EXCEPT !.vk.alive = @ \cup {h}]

\* Objects a pending submission still uses.
InUse(v) == UNION { v.pending[i].uses : i \in 1..Len(v.pending) }

\* vkDestroy* / vkFree*: the object is gone; destroying an object that a
\* pending submission uses is recorded in hazards.
Destroyed(m, fn, h) ==
  Log([m EXCEPT !.vk.alive = @ \ {h},
                !.vk.hazards = IF h \in InUse(m.vk) THEN @ \cup {h} ELSE @],
      fn, h)

RECURSIVE DestroyedAll(_, _, _)
DestroyedAll(m, fn, hs) ==
  IF hs = <<>> THEN m
  ELSE DestroyedAll(Destroyed(m, fn, Head(hs)), fn, Tail(hs))

(* ----------------------- SwapchainSupportDetails ------------------------ *)
\* u32::max_value(), the width of the "match the window" current extent.
\* It is only ever compared with a width; every other extent is below it.
\* It stands here as the largest integer the model checker holds.
U32_MAX == 2147483647

Extent2D(width, height) == [width |-> width, height |-> height]

SurfaceFormatKHR(format, color_space) ==
  [format |-> format, color_space |-> color_space]

\* What query_swapchain_support returns for a surface.
SwapchainSupportDetails(capabilities, formats, present_modes) ==
  [capabilities |-> capabilities, formats |-> formats,
   present_modes |-> present_modes]

\* (variant: the first supported format is taken, whatever it is)
choose_swap_chain_format_first_entry(details) ==
  IF details.formats # <<>>
  THEN details.formats[1]
  ELSE SurfaceFormatKHR("R8G8B8A8_UNORM", "SRGB_NONLINEAR")

\* formats.iter().find(R8G8B8A8_UNORM && SRGB_NONLINEAR), else that same
\* format built by hand.
choose_swap_chain_format(details) ==
  LET formats == details.formats
      found == { i \in 1..Len(formats) :
                   /\ formats[i].format = "R8G8B8A8_UNORM"
                   /\ formats[i].color_space = "SRGB_NONLINEAR" }
  IN IF found # {}
     THEN formats[CHOOSE i \in found : \A j \in found : i <= j]
     ELSE SurfaceFormatKHR("R8G8B8A8_UNORM", "SRGB_NONLINEAR")

\* (variant: FIFO is taken whenever it is offered)
choose_present_mode_fifo_first(details) ==
  LET present_modes == details.present_modes
  IN IF \E i \in 1..Len(present_modes) : present_modes[i] = "FIFO"
     THEN "FIFO"
     ELSE IF \E i \in 1..Len(present_modes) : present_modes[i] = "MAILBOX"
          THEN "MAILBOX"
          ELSE "FIFO"

\* present_modes.iter().find(MAILBOX), else FIFO.
choose_present_mode(details) ==
  LET present_modes == details.present_modes
  IN IF \E i \in 1..Len(present_modes) : present_modes[i] = "MAILBOX"
     THEN "MAILBOX"
     ELSE "FIFO"

\* u32::clamp(min, max), for min <= max (the driver reports
\* min_image_extent <= max_image_extent).
clamp(value, min, max) ==
  IF value < min THEN min ELSE IF value > max THEN max ELSE value

\* (variant: the requested size is used as it is)
choose_swap_extent_unclamped(details, buffer_width, buffer_height) ==
  IF details.capabilities.current_extent.width # U32_MAX
  THEN details.capabilities.current_extent
  ELSE Extent2D(buffer_width, buffer_height)

\* (variant: the surface's current extent is not looked at)
choose_swap_extent_ignoring_current(details, buffer_width, buffer_height) ==
  LET capabilities == details.capabilities
  IN Extent2D(clamp(buffer_width, capabilities.min_image_extent.width,
                    capabilities.max_image_extent.width),
              clamp(buffer_height, capabilities.min_image_extent.height,
                    capabilities.max_image_extent.height))

choose_swap_extent(details, buffer_width, buffer_height) ==
  LET capabilities == details.capabilities
  IN IF capabilities.current_extent.width # U32_MAX
     THEN capabilities.current_extent
     ELSE Extent2D(clamp(buffer_width, capabilities.min_image_extent.width,
                         capabilities.max_image_extent.width),
                   clamp(buffer_height, capabilities.min_image_extent.height,
                         capabilities.max_image_extent.height))

(* ---------------------- Configuration: build steps --------------------- *)
\* (variant: one image more than the surface allows at most)
ImageCount_above_max(caps) ==
  IF caps.max_image_count > 0 /\ caps.min_image_count + 1 > caps.max_image_count
  THEN caps.max_image_count + 1
  ELSE caps.min_image_count + 1

\* create_swap_chain: image_count = min_image_count + 1, lowered to
\* max_image_count when that is nonzero and exceeded.
ImageCount(caps) ==
  IF caps.max_image_count > 0 /\ caps.min_image_count + 1 > caps.max_image_count
  THEN caps.max_image_count
  ELSE caps.min_image_count + 1

\* Surface capabilities the driver can report for the frame loop: the image
\* counts vary, the surface dictates its extent.
SurfaceCaps ==
  { c \in [min_image_count : 1..(MaxImages - 1), max_image_count : 0..MaxImages,
           current_extent : {Extent2D(800, 600)},
           min_image_extent : {Extent2D(1, 1)},
           max_image_extent : {Extent2D(4096, 4096)}] :
      c.max_image_count = 0 \/ c.max_image_count >= c.min_image_count }

\* A surface as the driver answers for it: its capabilities, formats and
\* present modes, and the number of images it gives a swapchain (the number
\* requested).
Surface(caps, formats, present_modes) ==
  [caps |-> caps, formats |-> formats, present_modes |-> present_modes,
   images |-> ImageCount(caps)]

Surfaces ==
  { Surface(c, <<SurfaceFormatKHR("R8G8B8A8_UNORM", "SRGB_NONLINEAR")>>, <<"FIFO">>) :
      c \in SurfaceCaps }

\* (variant: the extent is chosen from the previous extent, grown by one)
create_swap_chain_growing(m, surface) ==
  LET details == SwapchainSupportDetails(surface.caps, surface.formats,
                                         surface.present_modes)
      m0 == [m EXCEPT !.vk.generation = @ + 1]
      swapchain == NewHandle(m0, "swapchain", <<>>)
      m1 == Log(Created(m0, swapchain), "create_swapchain", swapchain)
      OfSwapchain(i) == <<swapchain.id>>
      images == NewHandles(m1, "image", surface.images, OfSwapchain)
      alive == { h \in m1.vk.alive : h.kind = "swapchain" }
  IN [m1 EXCEPT !.cfg.surface_format = choose_swap_chain_format(details),
                !.cfg.present_mode = choose_present_mode(details),
                !.cfg.extent = Extent2D(m.cfg.extent.width + 1, m.cfg.extent.height),
                !.cfg.image_count = ImageCount(surface.caps),
                !.cfg.swapchain = swapchain,
                !.cfg.swapchain_images = images,
                !.vk.max_swapchains = IF Cardinality(alive) > @
                                      THEN Cardinality(alive) ELSE @]

create_swap_chain(m, surface) ==
  LET details == SwapchainSupportDetails(surface.caps, surface.formats,
                                         surface.present_modes)
      m0 == [m EXCEPT !.vk.generation = @ + 1]
      swapchain == NewHandle(m0, "swapchain", <<>>)
      m1 == Log(Created(m0, swapchain), "create_swapchain", swapchain)
      OfSwapchain(i) == <<swapchain.id>>
      images == NewHandles(m1, "image", surface.images, OfSwapchain)
      alive == { h \in m1.vk.alive : h.kind = "swapchain" }
  IN [m1 EXCEPT !.cfg.surface_format = choose_swap_chain_format(details),
                !.cfg.present_mode = choose_present_mode(details),
                !.cfg.extent = choose_swap_extent(details, m.cfg.width, m.cfg.height),
                !.cfg.image_count = ImageCount(surface.caps),
                !.cfg.swapchain = swapchain,
                !.cfg.swapchain_images = images,
                !.vk.max_swapchains = IF Cardinality(alive) > @
                                      THEN Cardinality(alive) ELSE @]

create_swapchain_image_views(m) ==
  LET images == m.cfg.swapchain_images
      OfImage(i) == <<images[i].id>>
      views == NewHandles(m, "image_view", Len(images), OfImage)
  IN Log([m EXCEPT !.cfg.image_views = views,
                   !.vk.alive = @ \cup Range(views)],
         "create_image_views", Len(views))

create_render_pass(m) ==
  LET render_pass == NewHandle(m, "render_pass", <<>>)
  IN [Log(Created(m, render_pass), "create_render_pass", render_pass)
        EXCEPT !.cfg.render_pass = render_pass]

create_graphics_pipeline(m) ==
  LET pipeline == NewHandle(m, "pipeline", <<m.cfg.render_pass.id>>)
  IN [Log(Created(m, pipeline), "create_graphics_pipelines", pipeline)
        EXCEPT !.cfg.graphics_pipelines = <<pipeline>>]

\* (variant: every framebuffer is built on the first image view)
create_framebuffers_on_first_view(m) ==
  LET views == m.cfg.image_views
      Attachments(i) == <<views[1].id, m.cfg.render_pass.id>>
      made == NewHandles(m, "framebuffer", Len(views), Attachments)
  IN Log([m EXCEPT !.cfg.framebuffers = @ \o made,
                   !.vk.alive = @ \cup Range(made)],
         "create_framebuffers", Len(made))

\* One framebuffer per image view, pushed in image-view order.
create_framebuffers(m) ==
  LET views == m.cfg.image_views
      Attachments(i) == <<views[i].id, m.cfg.render_pass.id>>
      made == NewHandles(m, "framebuffer", Len(views), Attachments)
  IN Log([m EXCEPT !.cfg.framebuffers = @ \o made,
                   !.vk.alive = @ \cup Range(made)],
         "create_framebuffers", Len(made))

create_logical_device(m) ==
  LET device == NewHandle(m, "device", <<>>)
  IN [Created(m, device) EXCEPT !.cfg.logical_device = device]

\* create_vertex_buffer / create_index_buffer: the device-local buffer that
\* create_buffer returns is stored in the named field.
create_buffer(m, field) ==
  LET buffer == NewHandle(m, "buffer", <<>>)
  IN [Log(Created(m, buffer), "create_buffer", buffer) EXCEPT !.cfg[field] = buffer]

create_command_pool(m) ==
  LET pool == NewHandle(m, "command_pool", <<>>)
  IN [Log(Created(m, pool), "create_command_pool", pool)
        EXCEPT !.cfg.command_pool = pool]

create_command_buffer(m) ==
  LET OfPool(i) == <<m.cfg.command_pool.id>>
      made == NewHandles(m, "command_buffer", MAX_FLIGHT_FENCES, OfPool)
  IN Log([m EXCEPT !.cfg.command_buffer = made,
                   !.vk.alive = @ \cup Range(made)],
         "allocate_command_buffers", MAX_FLIGHT_FENCES)

\* create_fence: FenceCreateFlags::SIGNALED.
create_fence(m) ==
  LET fence == NewHandle(m, "fence", <<>>)
  IN [Created(m, fence) EXCEPT !.vk.signaled = @ \cup {fence},
                               !.cfg.in_flight_fences = Append(@, fence)]

create_semaphore(m, field) ==
  LET semaphore == NewHandle(m, "semaphore", <<>>)
  IN [Created(m, semaphore) EXCEPT !.cfg[field] = Append(@, semaphore)]

RECURSIVE create_sync_objects_from(_, _)
create_sync_objects_from(m, i) ==
  IF i >= MAX_FLIGHT_FENCES THEN m
  ELSE create_sync_objects_from(
         create_fence(
           create_semaphore(
             create_semaphore(m, "image_available_semaphores"),
             "render_finished_semaphores")),
         i + 1)

create_sync_objects(m) == create_sync_objects_from(m, 0)

(* --------------------- Configuration: recreation ----------------------- *)
\* vkDeviceWaitIdle: returns once the GPU has completed every submission.
device_wait_idle(m) ==
  Log([m EXCEPT !.vk.signaled = @ \cup { m.vk.pending[i].fence : i \in 1..Len(m.vk.pending) },
                !.vk.pending = <<>>],
      "device_wait_idle", Null)

\* in_flight_fences.resize(swapchain_images.len(), Fence::null())
ResizeFences(fences, n) ==
  [i \in 1..n |-> IF i <= Len(fences) THEN fences[i] ELSE Null]

\* (variant: the swapchain itself is not destroyed)
destroy_swapchain_keeping_swapchain(m) ==
  LET m1 == [DestroyedAll(m, "destroy_framebuffer", m.cfg.framebuffers)
               EXCEPT !.cfg.framebuffers = <<>>]
      m2 == DestroyedAll(m1, "free_command_buffers", m1.cfg.command_buffer)
      m3 == Destroyed(m2, "destroy_pipeline", m2.cfg.graphics_pipelines[1])
      m4 == Destroyed(m3, "destroy_render_pass", m3.cfg.render_pass)
      m5 == [DestroyedAll(m4, "destroy_image_view", m4.cfg.image_views)
               EXCEPT !.cfg.image_views = <<>>]
  IN [m5 EXCEPT !.cfg.in_flight_fences =
                   ResizeFences(@, Len(m5.cfg.swapchain_images))]

destroy_swapchain(m) ==
  LET m1 == [DestroyedAll(m, "destroy_framebuffer", m.cfg.framebuffers)
               EXCEPT !.cfg.framebuffers = <<>>]
      m2 == DestroyedAll(m1, "free_command_buffers", m1.cfg.command_buffer)
      m3 == Destroyed(m2, "destroy_pipeline", m2.cfg.graphics_pipelines[1])
      m4 == Destroyed(m3, "destroy_render_pass", m3.cfg.render_pass)
      m5 == [DestroyedAll(m4, "destroy_image_view", m4.cfg.image_views)
               EXCEPT !.cfg.image_views = <<>>]
      m6 == Destroyed(m5, "destroy_swapchain", m5.cfg.swapchain)
  IN [m6 EXCEPT !.cfg.in_flight_fences =
                   ResizeFences(@, Len(m6.cfg.swapchain_images))]

recreate_swapchain(m, surface, device_lost) ==
  LET m0 == Log(m, "recreate_swapchain", Null)
  IN IF device_lost
     THEN [Log(m0, "device_wait_idle", Null) EXCEPT !.panicked = TRUE]
     ELSE [create_command_buffer(
             create_framebuffers(
               create_graphics_pipeline(
                 create_render_pass(
                   create_render_pass(
                     create_swapchain_image_views(
                       create_swap_chain(
                         destroy_swapchain(device_wait_idle(m0)),
                         surface)))))))
             EXCEPT !.ghost.recreations = @ + 1,
                    !.ghost.stale = FALSE]

\* window_resized of the builder variant (engine/mod.rs), whose flag is
\* called resized_flag:
\*   self.resized_flag = true; self.width = size.width;
\*   self.height = size.width;
window_resized_builder(m, size) ==
  [m EXCEPT !.cfg.window_resized = TRUE,
            !.cfg.width = size[1],
            !.cfg.height = size[1]]

window_resized(m, size) ==
  [m EXCEPT !.cfg.window_resized = TRUE,
            !.cfg.width = size[1],
            !.cfg.height = size[2]]

\* Configuration::destroy (engine/configuration/mod.rs): destroy_swapchain,
\* then the texture objects.
destroy(m) ==
  Log(Log(Log([destroy_swapchain(m) EXCEPT !.ghost.shutdown = TRUE],
              "destroy_image", Handle("texture_image", <<0, 1>>, <<>>)),
          "free_memory", Handle("texture_image_memory", <<0, 1>>, <<>>)),
      "destroy_image_view", Handle("texture_image_view", <<0, 1>>, <<>>))

(* --------------------------- Engine::draw_frame ------------------------ *)
\* Results the driver can return (ash maps SUCCESS and SUBOPTIMAL_KHR to Ok,
\* every other code to Err).
AcquireResults ==
  {"SUCCESS", "SUBOPTIMAL_KHR", "ERROR_OUT_OF_DATE_KHR",
   "ERROR_OUT_OF_HOST_MEMORY", "ERROR_DEVICE_LOST"}

PresentResults == AcquireResults

DeviceResults == {"SUCCESS", "ERROR_DEVICE_LOST"}

IsOk(result) == result \in {"SUCCESS", "SUBOPTIMAL_KHR"}

Panic(m) == [m EXCEPT !.panicked = TRUE]

\* (variant: an out-of-date acquire is not treated as a failure)
AcquireFailed_ignoring_out_of_date(result) ==
  ~IsOk(result) /\ result # "ERROR_OUT_OF_DATE_KHR"

\* match next_image_query_result { Ok(..) => .., Err(_) => recreate; return }
AcquireFailed(result) == ~IsOk(result)

\* queue_present(..).unwrap()
PresentPanics(result) == ~IsOk(result)

\* self.frame = (self.frame.add(1)) % MAX_FLIGHT_FENCES
NextFrame(frame) == (frame + 1) % MAX_FLIGHT_FENCES

\* (variant: the pending-resize flag is left set)
resize_check_keeping_flag(m, surface) ==
  IF m.cfg.window_resized
  THEN recreate_swapchain(m, surface, FALSE)
  ELSE m

\* if self.configuration.window_resized { window_resized = false; recreate }
resize_check(m, surface) ==
  IF m.cfg.window_resized
  THEN recreate_swapchain([m EXCEPT !.cfg.window_resized = FALSE], surface, FALSE)
  ELSE m

Suboptimal(m, result) ==
  IF result = "SUBOPTIMAL_KHR" THEN [m EXCEPT !.ghost.stale = TRUE] ELSE m

\* record_command_buffer: framebuffers.get(image_index).expect(..)
record_command_buffer(m, command_buffer, image_index) ==
  IF image_index + 1 > Len(m.cfg.framebuffers)
  THEN Panic(m)
  ELSE Log(m, "record_command_buffer",
           [command_buffer |-> command_buffer, image_index |-> image_index,
            framebuffer |-> m.cfg.framebuffers[image_index + 1]])

\* (variant: the submission signals the render-finished semaphore of the
\* next slot)
queue_submit_signalling_next_slot(m, current_frame, fence, result) ==
  LET command_buffer == m.cfg.command_buffer[current_frame + 1]
      submit_info ==
        [wait_semaphores |-> <<m.cfg.image_available_semaphores[current_frame + 1]>>,
         wait_dst_stage_mask |-> <<"COLOR_ATTACHMENT_OUTPUT">>,
         command_buffers |-> <<command_buffer>>,
         signal_semaphores |->
           <<m.cfg.render_finished_semaphores[NextFrame(current_frame) + 1]>>]
      m1 == Log(m, "queue_submit", [submit_info |-> submit_info, fence |-> fence])
      work == [command_buffer |-> command_buffer,
               fence |-> fence,
               uses |-> {command_buffer, m.cfg.graphics_pipelines[1],
                         m.cfg.render_pass, m.cfg.swapchain}
                          \cup Range(m.cfg.framebuffers)
                          \cup Range(m.cfg.image_views)]
  IN IF result # "SUCCESS"
     THEN Panic(m1)
     ELSE [m1 EXCEPT !.vk.pending = Append(@, work),
                     !.ghost.submit_fence[current_frame] = fence]

\* queue_submit of the slot's command buffer with the slot's fence, waiting
\* on the slot's image-available semaphore at COLOR_ATTACHMENT_OUTPUT and
\* signalling the slot's render-finished semaphore.  The submission may
\* touch whatever the command buffer was recorded against: the pipeline, the
\* render pass, the swapchain and its framebuffers and image views.
queue_submit(m, current_frame, fence, result) ==
  LET command_buffer == m.cfg.command_buffer[current_frame + 1]
      submit_info ==
        [wait_semaphores |-> <<m.cfg.image_available_semaphores[current_frame + 1]>>,
         wait_dst_stage_mask |-> <<"COLOR_ATTACHMENT_OUTPUT">>,
         command_buffers |-> <<command_buffer>>,
         signal_semaphores |->
           <<m.cfg.render_finished_semaphores[current_frame + 1]>>]
      m1 == Log(m, "queue_submit", [submit_info |-> submit_info, fence |-> fence])
      work == [command_buffer |-> command_buffer,
               fence |-> fence,
               uses |-> {command_buffer, m.cfg.graphics_pipelines[1],
                         m.cfg.render_pass, m.cfg.swapchain}
                          \cup Range(m.cfg.framebuffers)
                          \cup Range(m.cfg.image_views)]
  IN IF result # "SUCCESS"
     THEN Panic(m1)
     ELSE [m1 EXCEPT !.vk.pending = Append(@, work),
                     !.ghost.submit_fence[current_frame] = fence]

\* The part of draw_frame after a successful acquire.
render_and_present(m, current_frame, fence, command_buffer, in) ==
  LET m1 == Suboptimal(m, in.acquire)
      \* the fence was also handed to acquire_next_image: with in.late its
      \* signal is still outstanding when reset_fences runs
      m2 == Log([m1 EXCEPT !.vk.signaled = @ \ {fence},
                           !.vk.acquire_signals =
                              IF in.late THEN @ \cup {fence} ELSE @],
                "reset_fences", fence)
      m3 == Log(m2, "reset_command_buffer", command_buffer)
      m4 == record_command_buffer(m3, command_buffer, in.index)
  IN IF m4.panicked THEN m4
     ELSE LET m5 == queue_submit(m4, current_frame, fence, in.submit)
          IN IF m5.panicked THEN m5
             ELSE LET present_info ==
                        [wait_semaphores |->
                           <<m5.cfg.render_finished_semaphores[current_frame + 1]>>,
                         swapchains |-> <<m5.cfg.swapchain>>,
                         image_indices |-> <<in.index>>]
                      m6 == Log(m5, "queue_present", present_info)
                  IN IF PresentPanics(in.present) THEN Panic(m6)
                     ELSE LET m7 == resize_check(Suboptimal(m6, in.present), in.surface)
                          IN [m7 EXCEPT !.frame = NextFrame(@),
                                        !.ghost.completed = (@ + 1) % MAX_FLIGHT_FENCES]

draw_frame(m, in) ==
  LET current_frame == m.frame
      fences == m.cfg.in_flight_fences
      command_buffer == m.cfg.command_buffer[current_frame + 1]
  IN IF current_frame + 1 > Len(fences)
     THEN Panic(m)
     ELSE LET fence == fences[current_frame + 1]
              m1 == Log(m, "wait_for_fences", fence)
          IN IF in.wait # "SUCCESS"
             THEN Panic(m1)
             ELSE LET m2 == Log(m1, "acquire_next_image",
                                [swapchain |-> m.cfg.swapchain,
                                 semaphore |->
                                   m.cfg.image_available_semaphores[current_frame + 1],
                                 fence |-> fence,
                                 next_image |-> IF AcquireFailed(in.acquire)
                                                THEN None
                                                ELSE Some(in.index)])
                  IN IF AcquireFailed(in.acquire)
                     THEN recreate_swapchain(m2, in.surface,
                                             in.acquire = "ERROR_DEVICE_LOST")
                     ELSE render_and_present(m2, current_frame, fence,
                                             command_buffer, in)

(* ------------------------ physical device choice ----------------------- *)
\* QueueFamilyIndices::find_queue_family_indices: the first family with
\* GRAPHICS becomes the graphics family; it also becomes the presentation
\* family if it supports the surface.  No other family is asked.
find_queue_family_indices(physical_device) ==
  LET queue_family_properties == physical_device.queue_families
      graphics == { i \in 1..Len(queue_family_properties) :
                      queue_family_properties[i].graphics }
  IN IF graphics = {}
     THEN [graphics_queue |-> None, presentation_queue |-> None]
     ELSE LET queue_idx == CHOOSE i \in graphics : \A j \in graphics : i <= j
          IN [graphics_queue |-> Some(queue_idx - 1),
              presentation_queue |->
                IF queue_family_properties[queue_idx].surface_support
                THEN Some(queue_idx - 1)
                ELSE None]

is_complete(queue_family_indices) ==
  /\ queue_family_indices.graphics_queue # None
  /\ queue_family_indices.presentation_queue # None

\* check_device_extension_support: the swapchain extension must be offered;
\* if it is, its name is pushed onto device_extensions.
check_device_extension_support(m, physical_device) ==
  LET flag == "VK_KHR_swapchain" \in physical_device.extensions
  IN [m |-> IF flag
            THEN [m EXCEPT !.cfg.device_extensions = Append(@, "VK_KHR_swapchain")]
            ELSE m,
      flag |-> flag]

\* is_device_suitable (engine/configuration.rs).
is_device_suitable(m, physical_device) ==
  LET queue_family_indices == find_queue_family_indices(physical_device)
      extensions_enabled == check_device_extension_support(m, physical_device)
      adequate_swapchain ==
        /\ extensions_enabled.flag
        /\ physical_device.formats # <<>>
        /\ physical_device.present_modes # <<>>
  IN [m |-> extensions_enabled.m,
      suitable |-> /\ is_complete(queue_family_indices)
                   /\ extensions_enabled.flag
                   /\ adequate_swapchain]

\* (variant: the device features are not looked at)
is_device_suitable_textured_any_features(m, physical_device) ==
  LET queue_family_indices == find_queue_family_indices(physical_device)
      extensions_enabled == check_device_extension_support(m, physical_device)
      adequate_swapchain ==
        /\ extensions_enabled.flag
        /\ ~(physical_device.formats = <<>> /\ physical_device.present_modes = <<>>)
  IN [m |-> extensions_enabled.m,
      suitable |-> /\ is_complete(queue_family_indices)
                   /\ extensions_enabled.flag
                   /\ adequate_swapchain]

\* is_device_suitable of the texturing variant (engine/configuration/mod.rs):
\* adequate = !(formats.is_empty() && present_modes.is_empty())
\*            && sampler_anisotropy != 0
is_device_suitable_textured(m, physical_device) ==
  LET queue_family_indices == find_queue_family_indices(physical_device)
      extensions_enabled == check_device_extension_support(m, physical_device)
      adequate_swapchain ==
        /\ extensions_enabled.flag
        /\ ~(physical_device.formats = <<>> /\ physical_device.present_modes = <<>>)
        /\ physical_device.sampler_anisotropy # 0
  IN [m |-> extensions_enabled.m,
      suitable |-> /\ is_complete(queue_family_indices)
                   /\ extensions_enabled.flag
                   /\ adequate_swapchain]

\* (variant: the last suitable device is kept)
RECURSIVE pick_physical_device_last_from(_, _, _, _)
pick_physical_device_last_from(m, physical_devices, i, found) ==
  IF i > Len(physical_devices)
  THEN IF found = None
       THEN [m |-> m, result |-> "Err"]
       ELSE [m |-> [m EXCEPT !.cfg.physical_device = found], result |-> "Ok"]
  ELSE LET checked == is_device_suitable(m, physical_devices[i])
       IN pick_physical_device_last_from(
            checked.m, physical_devices, i + 1,
            IF checked.suitable THEN Some(physical_devices[i]) ELSE found)

pick_physical_device_last(m, physical_devices) ==
  pick_physical_device_last_from(m, physical_devices, 1, None)

\* physical_devices.iter().find(is_device_suitable): devices are tried in
\* enumeration order and the search stops at the first suitable one.
RECURSIVE pick_physical_device_from(_, _, _)
pick_physical_device_from(m, physical_devices, i) ==
  IF i > Len(physical_devices)
  THEN [m |-> m, result |-> "Err"]
  ELSE LET checked == is_device_suitable(m, physical_devices[i])
       IN IF checked.suitable
          THEN [m |-> [checked.m EXCEPT !.cfg.physical_device =
                                           Some(physical_devices[i])],
                result |-> "Ok"]
          ELSE pick_physical_device_from(checked.m, physical_devices, i + 1)

pick_physical_device(m, physical_devices) ==
  pick_physical_device_from(m, physical_devices, 1)

(* ------------------------------ the instance --------------------------- *)
\* check_validation_layer_support: Ok when VK_LAYER_KHRONOS_validation is
\* among the layers the loader enumerates, Err otherwise.
check_validation_layer_support(entry) ==
  IF "VK_LAYER_KHRONOS_validation" \in entry.layers THEN "Ok" ELSE "Err"

\* create_instance.  The enabled extensions are those the window needs, the
\* two portability extensions, every extension the loader enumerates, and
\* VK_EXT_debug_utils when the validation layer is present.  The debug
\* messenger create info is chained into the instance create info and the
\* debug messenger is created whatever check_validation_layer_support said.
\* vkCreateInstance fails on an extension the loader does not have and
\* create_debug_utils_messenger cannot be loaded from an instance that has
\* not enabled VK_EXT_debug_utils; both results are unwrapped.
create_instance(m, entry) ==
  LET instance_extension_properties ==
        <<"VK_KHR_surface", "VK_EXT_metal_surface",
          "VK_KHR_portability_enumeration",
          "VK_KHR_get_physical_device_properties2">> \o entry.extensions
      enabled_extension_names ==
        IF check_validation_layer_support(entry) = "Ok"
        THEN Append(instance_extension_properties, "VK_EXT_debug_utils")
        ELSE instance_extension_properties
      instance_create_info ==
        [enabled_extension_names |-> enabled_extension_names,
         p_next |-> <<"DebugUtilsMessengerCreateInfoEXT">>]
      m1 == Log(m, "create_instance", instance_create_info)
      instance == NewHandle(m1, "instance", <<>>)
      m2 == Created([m1 EXCEPT !.cfg.instance = instance], instance)
      m3 == Log(m2, "create_debug_utils_messenger", instance)
      debug_messenger == NewHandle(m3, "debug_messenger", <<instance.id>>)
  IN IF ~(Range(enabled_extension_names) \subseteq Range(entry.extensions))
     THEN Panic(m1)
     ELSE IF "VK_EXT_debug_utils" \notin Range(enabled_extension_names)
          THEN Panic(m3)
          ELSE Created([m3 EXCEPT !.cfg.debug_messenger = debug_messenger],
                       debug_messenger)

\* create_surface: the window's surface, created on the instance.
create_surface(m) ==
  LET surface == NewHandle(m, "surface", <<m.cfg.instance.id>>)
  IN [Created(m, surface) EXCEPT !.cfg.surface = surface]

(* ------------------------------ buffer memory -------------------------- *)
\* type_filter & (1 << i) != 0
BitSet(type_filter, i) == (type_filter \div (2 ^ i)) % 2 = 1

\* find_memory_type: the first index i below memory_type_count whose bit is
\* set in type_filter and whose property flags share at least one flag with
\* the requested ones ((property_flags & properties) != empty()).
\* memory_types[i + 1] is the set of property flags of memory type i.
find_memory_type(memory_types, type_filter, properties) ==
  LET fitting == { i \in 0..(Len(memory_types) - 1) :
                     /\ BitSet(type_filter, i)
                     /\ (memory_types[i + 1] \cap properties) # {} }
  IN IF fitting = {}
     THEN None
     ELSE Some(CHOOSE i \in fitting : \A j \in fitting : i <= j)

\* allocate_buffer: create the buffer, ask its memory requirements, look up
\* the memory type (expect: a panic when there is none), allocate the
\* memory of that type and bind it.  The result holds the buffer and the
\* memory written through buffer_memory.
allocate_buffer(m, memory_types, memory_type_bits, device_size, usage, memory_property_flags) ==
  LET buffer == NewHandle(m, "buffer", <<>>)
      m1 == Log(Created(m, buffer), "create_buffer",
                [size |-> device_size, usage |-> usage])
      memory_type_index ==
        find_memory_type(memory_types, memory_type_bits, memory_property_flags)
      buffer_memory == NewHandle(m1, "memory", <<buffer.id>>)
      m2 == Log(Created(m1, buffer_memory), "allocate_memory",
                [allocation_size |-> device_size,
                 memory_type_index |-> memory_type_index])
  IN IF memory_type_index = None
     THEN [m |-> Panic(m1), buffer |-> Null, buffer_memory |-> Null]
     ELSE [m |-> Log(m2, "bind_buffer_memory", buffer),
           buffer |-> buffer, buffer_memory |-> buffer_memory]

(* ------------------------------ image layouts -------------------------- *)
\* single_time_command: one primary command buffer is allocated from the
\* command pool and recording begins with ONE_TIME_SUBMIT.
single_time_command(m) ==
  LET command_buffer ==
        NewHandle(m, "single_time_command", <<m.cfg.command_pool.id>>)
      m1 == Log(Created(m, command_buffer), "allocate_command_buffers", 1)
  IN [m |-> Log(m1, "begin_command_buffer", command_buffer),
      command |-> command_buffer]

\* end_single_time_command: end the recording, submit to the graphics queue
\* without a fence, wait for the queue to idle, free the command buffer.
end_single_time_command(m, command_buffer) ==
  LET m1 == Log(m, "end_command_buffer", command_buffer)
      m2 == Log(m1, "queue_submit", <<command_buffer>>)
      m3 == Log(m2, "queue_wait_idle", "graphics_queue")
  IN Destroyed(m3, "free_command_buffers", command_buffer)

\* get_physical_device_memory_properties of the device the uploads run on:
\* memory type 0 is device-local, memory type 1 host-visible and coherent.
PhysicalDeviceMemoryTypes ==
  << {"DEVICE_LOCAL"}, {"HOST_VISIBLE", "HOST_COHERENT"} >>

\* copy_buffer: one single-time command buffer of the command pool records
\* one BufferCopy of `size` bytes from offset 0 to offset 0, is submitted to
\* the graphics queue without a fence, waited for and freed.
copy_buffer(m, src_buffer, dst_buffer, size) ==
  LET begun == single_time_command(m)
      m1 == Log(begun.m, "cmd_copy_buffer",
                [src |-> src_buffer, dst |-> dst_buffer, src_offset |-> 0,
                 dst_offset |-> 0, size |-> size])
  IN end_single_time_command(m1, begun.command)

\* create_buffer<T>(buffer_type: Vec<T>), for a vector of `len` elements of
\* size_of_T bytes each.
\*   buffer_size = size_of::<T>() * buffer_type.len()   (bytes)
\* A staging buffer of buffer_size bytes is allocated in host-visible memory
\* and mapped for buffer_size bytes.  The host copy is
\*   buffer_type.as_ptr().copy_to_nonoverlapping(data.cast(), buffer_size)
\* on a *const T: its count is in elements of T, so it reads and writes
\* buffer_size * size_of::<T>() bytes.  A copy that runs past the vector and
\* the mapping is undefined behaviour: `fault` says whether the process dies
\* in it or the copy goes through.  Then the device-local buffer is
\* allocated, buffer_size bytes are copied into it on the device, and the
\* staging buffer and its memory are released.
create_buffer_T(m, size_of_T, len, fault) ==
  LET buffer_size == size_of_T * len
      memory_types == PhysicalDeviceMemoryTypes
      staging == allocate_buffer(m, memory_types, 3, buffer_size,
                                 {"TRANSFER_SRC"},
                                 {"HOST_VISIBLE", "HOST_COHERENT"})
      m1 == Log(staging.m, "map_memory",
                [memory |-> staging.buffer_memory, offset |-> 0,
                 size |-> buffer_size])
      m2 == Log(m1, "copy_to_nonoverlapping",
                [source_bytes |-> size_of_T * len, count |-> buffer_size,
                 bytes |-> buffer_size * size_of_T])
      m3 == Log(m2, "unmap_memory", staging.buffer_memory)
      device_local == allocate_buffer(m3, memory_types, 3, buffer_size,
                                      {"TRANSFER_DST", "VERTEX_BUFFER"},
                                      {"DEVICE_LOCAL"})
      m4 == copy_buffer(device_local.m, staging.buffer, device_local.buffer,
                        buffer_size)
      m5 == Destroyed(m4, "destroy_buffer", staging.buffer)
      m6 == Destroyed(m5, "free_memory", staging.buffer_memory)
  IN IF buffer_size * size_of_T > buffer_size /\ fault
     THEN [m |-> Panic(m2), buffer |-> Null]
     ELSE [m |-> m6, buffer |-> device_local.buffer]

\* copy_buffer_to_image: one single-time command buffer records one
\* BufferImageCopy of the whole texture (colour aspect, mip level 0, one
\* layer, offset 0) into the image in TRANSFER_DST_OPTIMAL layout.
copy_buffer_to_image(m, buffer, image, texture) ==
  LET begun == single_time_command(m)
      region == [buffer_offset |-> 0, aspect_mask |-> {"COLOR"},
                 image_offset |-> <<0, 0, 0>>,
                 image_extent |-> <<texture.width, texture.height, 1>>]
      m1 == Log(begun.m, "cmd_copy_buffer_to_image",
                [buffer |-> buffer, image |-> image,
                 layout |-> "TRANSFER_DST_OPTIMAL", region |-> region])
  IN end_single_time_command(m1, begun.command)

has_stencil_component(format) ==
  format \in {"D32_SFLOAT_S8_UINT", "D24_UNORM_S8_UINT"}

\* (variant: the depth-attachment transition is not among the supported ones)
transition_image_layout_without_depth(m, image, format, old_image_layout, new_image_layout) ==
  LET begun == single_time_command(m)
      transition == <<old_image_layout, new_image_layout>>
      barrier == [image |-> image, old_layout |-> old_image_layout,
                  new_layout |-> new_image_layout, aspect_mask |-> {"COLOR"}]
  IN IF transition \in { <<"UNDEFINED", "TRANSFER_DST_OPTIMAL">>,
                         <<"TRANSFER_DST_OPTIMAL", "SHADER_READ_ONLY_OPTIMAL">> }
     THEN [m |-> end_single_time_command(
                   Log(begun.m, "cmd_pipeline_barrier", barrier), begun.command),
           result |-> "Ok"]
     ELSE [m |-> begun.m, result |-> "Err"]

\* transition_image_layout: the single-time command buffer is begun first;
\* the match on (old, new) either yields the access and stage masks of one of
\* three transitions or returns Err on the spot, leaving the command buffer
\* begun, with nothing recorded into it, never ended, submitted or freed.
\* On a supported transition one image memory barrier is recorded and the
\* command buffer is ended, submitted and freed.
transition_image_layout(m, image, format, old_image_layout, new_image_layout) ==
  LET begun == single_time_command(m)
      aspect_flag ==
        IF new_image_layout = "DEPTH_STENCIL_ATTACHMENT_OPTIMAL"
        THEN IF has_stencil_component(format)
             THEN {"DEPTH", "STENCIL"}
             ELSE {"DEPTH"}
        ELSE {"COLOR"}
      transition == <<old_image_layout, new_image_layout>>
      masks ==
        CASE transition = <<"UNDEFINED", "TRANSFER_DST_OPTIMAL">> ->
               Some([src_access_mask |-> {},
                     dst_access_mask |-> {"TRANSFER_WRITE"},
                     src_stage_mask |-> "TOP_OF_PIPE",
                     dst_stage_mask |-> "TRANSFER"])
          [] transition = <<"TRANSFER_DST_OPTIMAL", "SHADER_READ_ONLY_OPTIMAL">> ->
               Some([src_access_mask |-> {"TRANSFER_WRITE"},
                     dst_access_mask |-> {"SHADER_READ"},
                     src_stage_mask |-> "TRANSFER",
                     dst_stage_mask |-> "FRAGMENT_SHADER"])
          [] transition = <<"UNDEFINED", "DEPTH_STENCIL_ATTACHMENT_OPTIMAL">> ->
               Some([src_access_mask |-> {},
                     dst_access_mask |-> {"DEPTH_STENCIL_ATTACHMENT_READ",
                                          "DEPTH_STENCIL_ATTACHMENT_WRITE"},
                     src_stage_mask |-> "TOP_OF_PIPE",
                     dst_stage_mask |-> "EARLY_FRAGMENT_TESTS"])
          [] OTHER -> None
      barrier == [image |-> image, old_layout |-> old_image_layout,
                  new_layout |-> new_image_layout, aspect_mask |-> aspect_flag,
                  masks |-> masks]
  IN IF masks = None
     THEN [m |-> begun.m, result |-> "Err"]
     ELSE [m |-> end_single_time_command(
                   Log(begun.m, "cmd_pipeline_barrier", barrier), begun.command),
           result |-> "Ok"]

(* ------------------------------ Engine::init --------------------------- *)
Default ==
  [logical_device |-> Null, image_count |-> 0, swapchain |-> Null,
   swapchain_images |-> <<>>, image_views |-> <<>>, render_pass |-> Null,
   graphics_pipelines |-> <<>>, framebuffers |-> <<>>, command_pool |-> Null,
   command_buffer |-> <<>>, image_available_semaphores |-> <<>>,
   render_finished_semaphores |-> <<>>, in_flight_fences |-> <<>>,
   vertex_buffer |-> Null, index_buffer |-> Null,
   instance |-> Null, debug_messenger |-> Null, surface |-> Null,
   physical_device |-> None, device_extensions |-> <<>>,
   surface_format |-> Null,
   present_mode |-> Null, extent |-> Extent2D(0, 0),
   width |-> 1920, height |-> 1080, window_resized |-> FALSE]

NoVulkan ==
  [generation |-> 0, alive |-> {}, signaled |-> {}, pending |-> <<>>,
   acquire_signals |-> {}, hazards |-> {}, max_swapchains |-> 0]

NoGhost ==
  [recreations |-> 0, completed |-> 0, stale |-> FALSE,
   shutdown |-> FALSE,
   submit_fence |-> [s \in 0..(MAX_FLIGHT_FENCES - 1) |-> Null],
   initial_fences |-> <<>>]

\* Engine::init, on a loader that has the validation layer and
\* VK_EXT_debug_utils.
Engine_init(surface) ==
  LET m0 == [cfg |-> Default, frame |-> 0, vk |-> NoVulkan, calls |-> <<>>,
             panicked |-> FALSE, ghost |-> NoGhost]
      entry == [layers |-> {"VK_LAYER_KHRONOS_validation"},
                extensions |-> <<"VK_KHR_surface", "VK_EXT_metal_surface",
                                 "VK_KHR_portability_enumeration",
                                 "VK_KHR_get_physical_device_properties2",
                                 "VK_EXT_debug_utils">>]
      d0 == create_surface(create_instance(m0, entry))
      d1 == create_swap_chain(create_logical_device(d0), surface)
      d2 == create_render_pass(create_swapchain_image_views(d1))
      d3 == create_framebuffers(create_graphics_pipeline(d2))
      d4 == create_buffer(create_command_pool(d3), "vertex_buffer")
      d5 == create_command_buffer(create_buffer(d4, "index_buffer"))
      m1 == create_sync_objects(d5)
  IN [m1 EXCEPT !.calls = <<>>,
                !.ghost.initial_fences = m1.cfg.in_flight_fences]

(* ------------------------------- state --------------------------------- *)
VARIABLES
  configuration,  \* Engine.configuration: the fields of Configuration
  frame,          \* Engine.frame
  vk,             \* the driver and GPU: live objects, fences, pending work
  calls,          \* driver calls made by the last handler step, in order
  status,         \* "running", "panicked" or "exited"
  pc,             \* position in App::window_event: "idle" or "dispatch"
  op,             \* what the last draw_frame was given and found on entry
  ghost           \* history: counts and flags the properties refer to

vars == <<configuration, frame, vk, calls, status, pc, op, ghost>>

\* The machine a handler starts on: calls and hazards are those of the
\* handler that runs.
Machine ==
  [cfg |-> configuration, frame |-> frame, vk |-> [vk EXCEPT !.hazards = {}],
   calls |-> <<>>, panicked |-> FALSE, ghost |-> ghost]

Install(m) ==
  /\ configuration' = m.cfg
  /\ frame' = m.frame
  /\ vk' = m.vk
  /\ calls' = m.calls
  /\ ghost' = m.ghost
  /\ status' = IF m.panicked THEN "panicked" ELSE status

NoOp ==
  [fn |-> "none", acquire |-> "SUCCESS", present |-> "SUCCESS",
   frame_entry |-> 0, completed_entry |-> 0, resized_entry |-> FALSE,
   stale_entry |-> FALSE, shutdown_entry |-> FALSE,
   first_use |-> FALSE, expected |-> Null]

Init ==
  \E surface \in Surfaces :
    LET m == Engine_init(surface)
    IN /\ configuration = m.cfg
       /\ frame = m.frame
       /\ vk = m.vk
       /\ calls = m.calls
       /\ ghost = m.ghost
       /\ status = "running"
       /\ pc = "idle"
       /\ op = NoOp

(* ------------------------------ actions -------------------------------- *)
AnySurface == CHOOSE s \in Surfaces : TRUE

\* Inputs of one draw_frame call: the driver's results, drawn only where the
\* call reaches them (a result the call never looks at is held fixed).
Input(wait, acquire, index, late, submit, present, surface) ==
  [wait |-> wait, acquire |-> acquire, index |-> index, late |-> late,
   submit |-> submit, present |-> present, surface |-> surface]

WaitFailInputs ==
  { Input("ERROR_DEVICE_LOST", "SUCCESS", 0, FALSE, "SUCCESS", "SUCCESS", AnySurface) }

AcquireFailInputs ==
  { Input("SUCCESS", "ERROR_DEVICE_LOST", 0, FALSE, "SUCCESS", "SUCCESS", AnySurface) }
  \cup { Input("SUCCESS", a, 0, FALSE, "SUCCESS", "SUCCESS", s) :
           a \in {"ERROR_OUT_OF_DATE_KHR", "ERROR_OUT_OF_HOST_MEMORY"}, s \in Surfaces }

\* The driver signals the fence given to acquire_next_image before
\* reset_fences runs.
Lates == {FALSE}

Indices == 0..(Len(configuration.swapchain_images) - 1)

SubmitFailInputs(lates) ==
  { Input("SUCCESS", a, i, l, "ERROR_DEVICE_LOST", "SUCCESS", AnySurface) :
      a \in {"SUCCESS"}, i \in {0}, l \in lates }

PresentFailInputs(lates) ==
  { Input("SUCCESS", "SUCCESS", 0, l, "SUCCESS", p, AnySurface) :
      l \in lates, p \in {"ERROR_OUT_OF_DATE_KHR", "ERROR_DEVICE_LOST"} }

FrameInputs(lates) ==
  { in \in [wait : {"SUCCESS"}, acquire : { r \in AcquireResults : IsOk(r) },
            index : Indices, late : lates, submit : {"SUCCESS"},
            present : { r \in PresentResults : IsOk(r) },
            surface : IF configuration.window_resized THEN Surfaces ELSE {AnySurface}] :
      TRUE }

Inputs(lates) ==
  WaitFailInputs \cup AcquireFailInputs \cup SubmitFailInputs(lates)
    \cup PresentFailInputs(lates) \cup FrameInputs(lates)

\* wait_for_fences blocks until the fence is signaled; waiting on a null
\* handle is undefined and may return at once.
WaitReturns(in) ==
  LET fences == configuration.in_flight_fences
  IN (frame + 1 <= Len(fences) /\ in.wait = "SUCCESS" /\ fences[frame + 1] # Null)
       => fences[frame + 1] \in vk.signaled

ExpectedFence ==
  IF ghost.submit_fence[frame] # Null
  THEN ghost.submit_fence[frame]
  ELSE ghost.initial_fences[frame + 1]

\* App::window_event, first statement: engine.draw_frame() for every event.
DrawFrameWith(lates) ==
  /\ status = "running"
  /\ pc = "idle"
  /\ \E in \in Inputs(lates) :
       LET m == draw_frame(Machine, in)
       IN /\ WaitReturns(in)
          /\ m.ghost.recreations <= MaxRecreations
          /\ Install(m)
          /\ pc' = "dispatch"
          /\ op' = [fn |-> "draw_frame", acquire |-> in.acquire,
                    present |-> in.present,
                    frame_entry |-> frame, completed_entry |-> ghost.completed,
                    resized_entry |-> configuration.window_resized,
                    stale_entry |-> ghost.stale,
                    shutdown_entry |-> ghost.shutdown,
                    first_use |-> ghost.submit_fence[frame] = Null,
                    expected |-> ExpectedFence]

DrawFrame == DrawFrameWith(Lates)

\* Engine::destroy: hands over to Configuration::destroy.
Engine_destroy(m) == destroy(m)

DispatchDestroyed ==
  /\ status = "running" /\ pc = "dispatch"
  /\ Install(Engine_destroy(Machine))
  /\ pc' = "idle"
  /\ op' = NoOp

DispatchCloseRequested ==
  /\ status = "running" /\ pc = "dispatch"
  /\ LET m == Engine_destroy(Machine)
     IN /\ configuration' = m.cfg
        /\ frame' = m.frame
        /\ vk' = m.vk
        /\ calls' = Append(m.calls, Call("exit", Null))
        /\ ghost' = m.ghost
  /\ status' = "exited"
  /\ pc' = "idle"
  /\ op' = NoOp

DispatchResized ==
  /\ status = "running" /\ pc = "dispatch"
  /\ \E size \in WindowSizes : Install(window_resized(Machine, size))
  /\ pc' = "idle"
  /\ op' = NoOp

DispatchOther ==
  /\ status = "running" /\ pc = "dispatch"
  /\ Install(Machine)
  /\ pc' = "idle"
  /\ op' = NoOp

\* The GPU finishes the oldest submission and signals its fence (its
\* progress is observed between two handler runs).
GpuComplete ==
  /\ status = "running"
  /\ pc = "idle"
  /\ vk.pending # <<>>
  /\ vk' = [vk EXCEPT !.pending = Tail(@),
                      !.signaled = @ \cup {Head(vk.pending).fence}]
  /\ UNCHANGED <<configuration, frame, calls, status, pc, op, ghost>>

Next ==
  \/ DrawFrame
  \/ DispatchDestroyed
  \/ DispatchCloseRequested
  \/ DispatchResized
  \/ DispatchOther
  \/ GpuComplete

Spec == Init /\ [][Next]_vars

(* ------------------------- progress of the frame loop ------------------ *)
\* wait_for_fences on a null handle is undefined: besides returning at once
\* (DrawFrame) the call may never return.
WaitOnNullFence ==
  /\ status = "running"
  /\ pc = "idle"
  /\ frame + 1 <= Len(configuration.in_flight_fences)
  /\ configuration.in_flight_fences[frame + 1] = Null
  /\ calls' = <<Call("wait_for_fences", Null)>>
  /\ status' = "hung"
  /\ op' = NoOp
  /\ UNCHANGED <<configuration, frame, vk, pc, ghost>>

LiveNext ==
  \/ DrawFrame
  \/ DispatchDestroyed
  \/ DispatchCloseRequested
  \/ DispatchResized
  \/ DispatchOther
  \/ GpuComplete
  \/ WaitOnNullFence

\* Window events keep arriving, each of them calls draw_frame, and the GPU
\* eventually completes every submission.
SpecLive ==
  Init /\ [][LiveNext]_vars /\ WF_vars(DrawFrame) /\ WF_vars(GpuComplete)

(* ------------------- the fence shared with the acquire ----------------- *)
\* draw_frame hands fences[current_frame] to acquire_next_image while it is
\* still signaled and resets it afterwards: the driver's signal for the
\* acquired image may arrive before reset_fences or after it.
MaxPending == 2   \* most submissions still executing when a frame starts

DrawFrameLate == Len(vk.pending) <= MaxPending /\ DrawFrameWith(BOOLEAN)

\* The driver signals a fence for an image acquired earlier.
AcquireSignal ==
  /\ status = "running"
  /\ pc = "idle"
  /\ \E fence \in vk.acquire_signals :
       vk' = [vk EXCEPT !.acquire_signals = @ \ {fence},
                        !.signaled = @ \cup {fence}]
  /\ UNCHANGED <<configuration, frame, calls, status, pc, op, ghost>>

LateNext ==
  \/ DrawFrameLate
  \/ DispatchOther
  \/ GpuComplete
  \/ AcquireSignal

SpecLate == Init /\ [][LateNext]_vars

(* ----------------------------- properties ------------------------------ *)
Calls(fn) == Count(calls, fn)

Before(fn1, fn2) ==
  /\ FirstIndex(calls, fn1) # 0
  /\ FirstIndex(calls, fn2) # 0
  /\ FirstIndex(calls, fn1) < FirstIndex(calls, fn2)

\* The last step was a draw_frame that got as far as acquire_next_image.
Acquired == op.fn = "draw_frame" /\ Calls("acquire_next_image") = 1

\* The last step was a draw_frame whose queue_present returned Ok.
Presented == op.fn = "draw_frame" /\ Calls("queue_present") = 1 /\ IsOk(op.present)

Waited == { calls[i].arg : i \in { j \in 1..Len(calls) : calls[j].fn = "wait_for_fences" } }

AliveSwapchains == { h \in vk.alive : h.kind = "swapchain" }

\* C1: a draw_frame whose acquire_next_image reports the swapchain out of
\* date calls recreate_swapchain exactly once, issues no queue_submit and no
\* queue_present, and returns with the frame counter it was entered with.
C1_OutOfDateAbortsFrame ==
  (Acquired /\ op.acquire = "ERROR_OUT_OF_DATE_KHR") =>
    /\ Calls("recreate_swapchain") = 1
    /\ Calls("queue_submit") = 0
    /\ Calls("queue_present") = 0
    /\ frame = op.frame_entry

C1_Witness ==
  /\ Acquired
  /\ op.acquire = "ERROR_OUT_OF_DATE_KHR"
  /\ status = "running"
  /\ Calls("create_swapchain") = 1

\* C2: the slot a draw_frame uses is the number of completed frames modulo
\* MAX_FLIGHT_FENCES, and the fence it waits on is the fence the last
\* completed frame of that slot passed to queue_submit (the slot's initial
\* fence when the slot has not been submitted yet), whatever recreations
\* happened in between (frames drawn before the shutdown destroy).
C2_FrameIndexInvariant ==
  (op.fn = "draw_frame" /\ ~op.shutdown_entry) =>
    /\ op.frame_entry = op.completed_entry
    /\ Waited = {op.expected}

\* C3: when queue_present reports the swapchain out of date, draw_frame
\* recreates the swapchain and the process keeps running.
C3_PresentOutOfDateRecovers ==
  (op.fn = "draw_frame" /\ Calls("queue_present") = 1
     /\ op.present = "ERROR_OUT_OF_DATE_KHR") =>
    /\ status = "running"
    /\ Calls("recreate_swapchain") = 1

\* C4: once acquire_next_image or queue_present has reported the swapchain
\* suboptimal, no later frame is recorded before recreate_swapchain has run.
C4_SuboptimalRecreatesBeforeNextRecord ==
  (op.fn = "draw_frame" /\ op.stale_entry /\ Calls("record_command_buffer") > 0) =>
    Before("recreate_swapchain", "record_command_buffer")

\* C5: a draw_frame that completes its present with the pending-resize flag
\* set (as it is whenever window_resized was called since the last
\* recreation) clears the flag, calls recreate_swapchain exactly once, after
\* the present, and advances the frame counter; with the flag clear it does
\* not recreate.
C5_ResizeCheck ==
  Presented =>
    IF op.resized_entry
    THEN /\ ~configuration.window_resized
         /\ Calls("recreate_swapchain") = 1
         /\ Before("queue_present", "recreate_swapchain")
         /\ frame = (op.frame_entry + 1) % MAX_FLIGHT_FENCES
    ELSE /\ Calls("recreate_swapchain") = 0
         /\ frame = (op.frame_entry + 1) % MAX_FLIGHT_FENCES

C5_Witness ==
  /\ Presented
  /\ op.resized_entry
  /\ status = "running"
  /\ Calls("create_swapchain") = 1
  /\ configuration.width = 800

\* C6: an acquire_next_image failure other than out-of-date terminates the
\* process.
C6_OtherAcquireFailureIsFatal ==
  (Acquired /\ op.acquire \in {"ERROR_OUT_OF_HOST_MEMORY", "ERROR_DEVICE_LOST"}) =>
    status = "panicked"

\* C7: nothing is destroyed while a submission of draw_frame that may use
\* it is still pending on the GPU (every destroy_swapchain runs after a
\* device-idle wait that follows the last queue_submit).
C7_NoDestroyWhileInUse == vk.hazards = {}

\* C8: as long as the shutdown destroy has not run, exactly one swapchain
\* is alive between operations, it is the one the configuration holds, and
\* never have two swapchains been alive at once.
C8_OneSwapchainAlive ==
  ~ghost.shutdown =>
    /\ AliveSwapchains = {configuration.swapchain}
    /\ vk.max_swapchains = 1

C8_Witness ==
  /\ ~ghost.shutdown
  /\ status = "running"
  /\ ghost.recreations >= 1
  /\ Calls("destroy_swapchain") = 1
  /\ Before("destroy_swapchain", "create_swapchain")

\* C9: after initialization and after every recreation there is one
\* framebuffer per swapchain image and per image view, framebuffer i being
\* built on image view i and image view i on image i.
C9_FramebufferPerImage ==
  ~ghost.shutdown =>
    /\ Len(configuration.framebuffers) = Len(configuration.swapchain_images)
    /\ Len(configuration.image_views) = Len(configuration.swapchain_images)
    /\ \A i \in 1..Len(configuration.framebuffers) :
         /\ configuration.framebuffers[i].refs[1] = configuration.image_views[i].id
         /\ configuration.image_views[i].refs[1] = configuration.swapchain_images[i].id
         /\ configuration.framebuffers[i] \in vk.alive

C9_Witness ==
  /\ ~ghost.shutdown
  /\ ghost.recreations >= 1
  /\ Calls("create_framebuffers") = 1
  /\ Len(configuration.framebuffers) >= 2

\* C10: in every state there are exactly MAX_FLIGHT_FENCES in-flight
\* fences, each one a fence made by create_sync_objects, never a null
\* handle.
C10_FenceCountFixed ==
  /\ Len(configuration.in_flight_fences) = MAX_FLIGHT_FENCES
  /\ \A i \in 1..Len(configuration.in_flight_fences) :
       /\ configuration.in_flight_fences[i] # Null
       /\ configuration.in_flight_fences[i] \in Range(ghost.initial_fences)

\* C11: every in-flight fence is created signaled, so the first draw_frame
\* that uses a frame slot (no submission has used the slot before) waits on
\* the fence create_sync_objects made for that slot, which is still signaled
\* from its creation, and gets past the wait.
C11_FirstWaitPasses ==
  (op.fn = "draw_frame" /\ ~op.shutdown_entry /\ op.first_use) =>
     /\ Waited = {ghost.initial_fences[op.frame_entry + 1]}
     /\ \A i \in 1..Len(ghost.initial_fences) :
          ghost.submit_fence[i - 1] = Null =>
            (ghost.initial_fences[i] \in vk.signaled \/ i = op.frame_entry + 1)

(* ------------- the selection functions, each on its inputs ------------- *)
MaxFormats == 2         \* longest list of surface formats
MaxPresentModes == 2    \* longest list of present modes
MaxExtent == 3          \* largest width or height of an extent bound
MaxMinImageCount == 3   \* largest min_image_count
MaxQueueFamilies == 2   \* most queue families of a device
MaxDevices == 2         \* most physical devices enumerated
MaxSizeOfT == 4         \* largest size_of::<T>() of an uploaded element
MaxDataLen == 4         \* most elements of an uploaded vector

MaxMemoryTypes == 3     \* most memory types of a physical device

SeqsUpTo(S, n) == UNION { [1..k -> S] : k \in 0..n }

SurfaceFormats ==
  { SurfaceFormatKHR("R8G8B8A8_UNORM", "SRGB_NONLINEAR"),
    SurfaceFormatKHR("B8G8R8A8_SRGB", "SRGB_NONLINEAR"),
    SurfaceFormatKHR("R8G8B8A8_UNORM", "EXTENDED_SRGB_LINEAR_EXT") }

PresentModes == {"IMMEDIATE", "MAILBOX", "FIFO", "FIFO_RELAXED"}

Capabilities(min_image_count, max_image_count, current, min, max) ==
  [min_image_count |-> min_image_count, max_image_count |-> max_image_count,
   current_extent |-> current, min_image_extent |-> min,
   max_image_extent |-> max]

Extents == { Extent2D(w, h) : w \in 1..MaxExtent, h \in 1..MaxExtent }

\* Capabilities of a surface that leaves the extent to the window, with
\* min_image_extent <= max_image_extent, and of one that dictates it.
FlexibleCapabilities ==
  { c \in [min_image_count : {2}, max_image_count : {0},
           current_extent : {Extent2D(U32_MAX, U32_MAX)},
           min_image_extent : Extents, max_image_extent : Extents] :
      /\ c.min_image_extent.width <= c.max_image_extent.width
      /\ c.min_image_extent.height <= c.max_image_extent.height }

FixedCapabilities ==
  { Capabilities(2, 0, e, Extent2D(1, 1), Extent2D(MaxExtent, MaxExtent)) :
      e \in Extents }

WindowExtents == 0..(MaxExtent + 1)

ImageCountCapabilities ==
  { Capabilities(lo, hi, Extent2D(800, 600), Extent2D(1, 1), Extent2D(4096, 4096)) :
      lo \in 1..MaxMinImageCount, hi \in 0..(MaxMinImageCount + 1) }

QueueFamilies == [graphics : BOOLEAN, surface_support : BOOLEAN]

PhysicalDevice(id, queue_families, extensions, formats, present_modes, anisotropy) ==
  [id |-> id, queue_families |-> queue_families, extensions |-> extensions,
   formats |-> formats, present_modes |-> present_modes,
   sampler_anisotropy |-> anisotropy]

\* A device as is_device_suitable can be handed one.
PhysicalDevices ==
  { PhysicalDevice(1, q, e, f, p, a) :
      q \in SeqsUpTo(QueueFamilies, MaxQueueFamilies),
      e \in { {}, {"VK_KHR_swapchain"} },
      f \in { <<>>, <<SurfaceFormatKHR("R8G8B8A8_UNORM", "SRGB_NONLINEAR")>> },
      p \in { <<>>, <<"FIFO">> },
      a \in {0, 1} }

\* Kinds of device an enumeration is made of: no queue family, one family
\* that does everything, graphics and presentation in two families; with or
\* without the swapchain extension.
DeviceKinds ==
  { [queue_families |-> q, extensions |-> e] :
      q \in { <<>>,
              <<[graphics |-> TRUE, surface_support |-> TRUE]>>,
              <<[graphics |-> TRUE, surface_support |-> FALSE],
                [graphics |-> FALSE, surface_support |-> TRUE]>> },
      e \in { {}, {"VK_KHR_swapchain"} } }

\* enumerate_physical_devices: the devices in enumeration order, each with
\* its own handle.
Enumerations ==
  { [i \in 1..Len(kinds) |->
       PhysicalDevice(i, kinds[i].queue_families, kinds[i].extensions,
                      <<SurfaceFormatKHR("R8G8B8A8_UNORM", "SRGB_NONLINEAR")>>,
                      <<"FIFO">>, 1)] :
      kinds \in SeqsUpTo(DeviceKinds, MaxDevices) }

\* What the Vulkan loader reports to create_instance: its layers and its
\* instance extensions.
Entries ==
  [layers : SUBSET {"VK_LAYER_KHRONOS_validation", "VK_LAYER_LUNARG_api_dump"},
   extensions :
     { <<"VK_KHR_surface", "VK_EXT_metal_surface",
         "VK_KHR_portability_enumeration",
         "VK_KHR_get_physical_device_properties2">>,
       <<"VK_KHR_surface", "VK_EXT_metal_surface",
         "VK_KHR_portability_enumeration",
         "VK_KHR_get_physical_device_properties2", "VK_EXT_debug_utils">> }]

\* The memory types a physical device reports, each with its property flags.
MemoryTypes ==
  SeqsUpTo({ {}, {"HOST_VISIBLE"}, {"HOST_VISIBLE", "HOST_COHERENT"},
             {"DEVICE_LOCAL"},
             {"DEVICE_LOCAL", "HOST_VISIBLE", "HOST_COHERENT"} },
           MaxMemoryTypes)

\* The property flags create_buffer asks for: staging, then device-local.
RequestedProperties == { {"HOST_VISIBLE", "HOST_COHERENT"}, {"DEVICE_LOCAL"} }

ImageLayouts ==
  {"UNDEFINED", "GENERAL", "COLOR_ATTACHMENT_OPTIMAL",
   "DEPTH_STENCIL_ATTACHMENT_OPTIMAL", "SHADER_READ_ONLY_OPTIMAL",
   "TRANSFER_SRC_OPTIMAL", "TRANSFER_DST_OPTIMAL", "PRESENT_SRC_KHR"}

\* Configuration::default(), before anything is created.
NewConfiguration ==
  [cfg |-> Default, frame |-> 0, vk |-> NoVulkan, calls |-> <<>>,
   panicked |-> FALSE, ghost |-> NoGhost]

SelectInit ==
  /\ configuration = Default
  /\ frame = 0
  /\ vk = NoVulkan
  /\ calls = <<>>
  /\ ghost = NoGhost
  /\ status = "running"
  /\ pc = "idle"
  /\ op = NoOp

ChooseSwapChainFormat ==
  /\ pc = "idle"
  /\ \E formats \in SeqsUpTo(SurfaceFormats, MaxFormats) :
       LET details == SwapchainSupportDetails(
                        Capabilities(2, 0, Extent2D(800, 600), Extent2D(1, 1),
                                     Extent2D(4096, 4096)),
                        formats, <<"FIFO">>)
       IN op' = [fn |-> "choose_swap_chain_format", details |-> details,
                 result |-> choose_swap_chain_format(details)]
  /\ pc' = "done"
  /\ UNCHANGED <<configuration, frame, vk, calls, status, ghost>>

ChoosePresentMode ==
  /\ pc = "idle"
  /\ \E present_modes \in SeqsUpTo(PresentModes, MaxPresentModes) :
       LET details == SwapchainSupportDetails(
                        Capabilities(2, 0, Extent2D(800, 600), Extent2D(1, 1),
                                     Extent2D(4096, 4096)),
                        <<>>, present_modes)
       IN op' = [fn |-> "choose_present_mode", details |-> details,
                 result |-> choose_present_mode(details)]
  /\ pc' = "done"
  /\ UNCHANGED <<configuration, frame, vk, calls, status, ghost>>

ChooseSwapExtent ==
  /\ pc = "idle"
  /\ \E capabilities \in FlexibleCapabilities \cup FixedCapabilities,
        buffer_width \in WindowExtents, buffer_height \in WindowExtents :
       LET details == SwapchainSupportDetails(capabilities, <<>>, <<>>)
       IN op' = [fn |-> "choose_swap_extent", details |-> details,
                 buffer_width |-> buffer_width, buffer_height |-> buffer_height,
                 result |-> choose_swap_extent(details, buffer_width, buffer_height)]
  /\ pc' = "done"
  /\ UNCHANGED <<configuration, frame, vk, calls, status, ghost>>

CreateSwapChain ==
  /\ pc = "idle"
  /\ \E capabilities \in ImageCountCapabilities :
       LET surface == Surface(capabilities,
                              <<SurfaceFormatKHR("R8G8B8A8_UNORM", "SRGB_NONLINEAR")>>,
                              <<"FIFO">>)
       IN /\ Install(create_swap_chain(NewConfiguration, surface))
          /\ op' = [fn |-> "create_swap_chain", surface |-> surface]
  /\ pc' = "done"

IsDeviceSuitable ==
  /\ pc = "idle"
  /\ \E physical_device \in PhysicalDevices :
       LET checked == is_device_suitable(NewConfiguration, physical_device)
       IN /\ Install(checked.m)
          /\ op' = [fn |-> "is_device_suitable", physical_device |-> physical_device,
                    result |-> checked.suitable]
  /\ pc' = "done"

IsDeviceSuitableTextured ==
  /\ pc = "idle"
  /\ \E physical_device \in PhysicalDevices :
       LET checked == is_device_suitable_textured(NewConfiguration, physical_device)
       IN /\ Install(checked.m)
          /\ op' = [fn |-> "is_device_suitable_textured",
                    physical_device |-> physical_device,
                    result |-> checked.suitable]
  /\ pc' = "done"

PickPhysicalDevice ==
  /\ pc = "idle"
  /\ \E physical_devices \in Enumerations :
       LET picked == pick_physical_device(NewConfiguration, physical_devices)
       IN /\ Install(picked.m)
          /\ op' = [fn |-> "pick_physical_device",
                    physical_devices |-> physical_devices,
                    result |-> picked.result]
  /\ pc' = "done"

CreateInstance ==
  /\ pc = "idle"
  /\ \E entry \in Entries :
       /\ Install(create_instance(NewConfiguration, entry))
       /\ op' = [fn |-> "create_instance", entry |-> entry]
  /\ pc' = "done"

AllocateBuffer ==
  /\ pc = "idle"
  /\ \E memory_types \in MemoryTypes,
        memory_type_bits \in 0..(2 ^ MaxMemoryTypes - 1),
        memory_property_flags \in RequestedProperties :
       LET allocated == allocate_buffer(NewConfiguration, memory_types,
                                        memory_type_bits, 12, {"TRANSFER_SRC"},
                                        memory_property_flags)
       IN /\ Install(allocated.m)
          /\ op' = [fn |-> "allocate_buffer", memory_types |-> memory_types,
                    type_filter |-> memory_type_bits,
                    properties |-> memory_property_flags,
                    result |-> find_memory_type(memory_types, memory_type_bits,
                                                memory_property_flags)]
  /\ pc' = "done"

\* transition_image_layout on a configuration that has its device and
\* command pool, for an image of the device.
TransitionImageLayout ==
  /\ pc = "idle"
  /\ \E format \in {"R8G8B8A8_SRGB", "D32_SFLOAT", "D24_UNORM_S8_UINT"},
        old_image_layout \in ImageLayouts,
        new_image_layout \in ImageLayouts :
       LET made == create_command_pool(create_logical_device(NewConfiguration))
           image == Handle("image", <<0, 1>>, <<made.cfg.logical_device.id>>)
           transitioned ==
             transition_image_layout([made EXCEPT !.calls = <<>>], image, format,
                                     old_image_layout, new_image_layout)
       IN /\ Install(transitioned.m)
          /\ op' = [fn |-> "transition_image_layout", image |-> image,
                    format |-> format, old_image_layout |-> old_image_layout,
                    new_image_layout |-> new_image_layout,
                    result |-> transitioned.result]
  /\ pc' = "done"

\* create_vertex_buffer / create_index_buffer on a configuration that has
\* its device and command pool, for every element size and vector length:
\*   self.<field> = self.create_buffer(self.<data>.clone())?
CreateBufferT ==
  /\ pc = "idle"
  /\ \E size_of_T \in 1..MaxSizeOfT, len \in 1..MaxDataLen, fault \in BOOLEAN,
        field \in {"vertex_buffer", "index_buffer"} :
       LET made == create_command_pool(create_logical_device(NewConfiguration))
           created == create_buffer_T([made EXCEPT !.calls = <<>>], size_of_T,
                                      len, fault)
       IN /\ Install(IF created.m.panicked THEN created.m
                     ELSE [created.m EXCEPT !.cfg[field] = created.buffer])
          /\ op' = [fn |-> "create_buffer", field |-> field,
                    size_of_T |-> size_of_T, len |-> len,
                    buffer |-> created.buffer]
  /\ pc' = "done"

\* copy_buffer_to_image on a configuration that has its device and command
\* pool, from a staging buffer into an image of the device.
CopyBufferToImage ==
  /\ pc = "idle"
  /\ \E width \in 1..2, height \in 1..2 :
       LET made == create_command_pool(create_logical_device(NewConfiguration))
           buffer == Handle("buffer", <<0, 1>>, <<>>)
           image == Handle("image", <<0, 1>>, <<made.cfg.logical_device.id>>)
           texture == [width |-> width, height |-> height]
       IN /\ Install(copy_buffer_to_image([made EXCEPT !.calls = <<>>], buffer,
                                          image, texture))
          /\ op' = [fn |-> "copy_buffer_to_image", buffer |-> buffer,
                    image |-> image, texture |-> texture]
  /\ pc' = "done"

\* (variant: the uploads run before the command pool is created)
InitChainUploadsFirst ==
  << "create_instance", "create_surface", "pick_physical_device",
     "create_logical_device", "create_swap_chain",
     "create_swapchain_image_views", "create_render_pass",
     "create_graphics_pipeline", "create_framebuffers",
     "create_vertex_buffer", "create_index_buffer", "create_command_pool",
     "create_command_buffer", "create_sync_objects" >>

\* The build chain of Engine::init, in call order.
InitChain ==
  << "create_instance", "create_surface", "pick_physical_device",
     "create_logical_device", "create_swap_chain",
     "create_swapchain_image_views", "create_render_pass",
     "create_graphics_pipeline", "create_framebuffers", "create_command_pool",
     "create_vertex_buffer", "create_index_buffer", "create_command_buffer",
     "create_sync_objects" >>

\* For each step of the chain: the fields of the Configuration the step
\* unwraps or reads before it has assigned them itself (the functions it
\* calls included: is_device_suitable, create_shader_module, create_buffer,
\* copy_buffer), and the fields it assigns.
StepFields(step) ==
  CASE step = "create_instance" ->
         [reads |-> {},
          writes |-> {"vulkan_entry", "instance", "debug_instance",
                      "debug_messenger"}]
    [] step = "create_surface" ->
         [reads |-> {"vulkan_entry", "instance"},
          writes |-> {"surface_instance", "surface"}]
    [] step = "pick_physical_device" ->
         [reads |-> {"instance", "surface_instance", "surface"},
          writes |-> {"physical_device", "swapchain_support_details"}]
    [] step = "create_logical_device" ->
         [reads |-> {"instance", "surface_instance", "surface",
                     "physical_device"},
          writes |-> {"queue_family_indices", "physical_device_features",
                      "logical_device", "graphics_queue",
                      "presentation_queue"}]
    [] step = "create_swap_chain" ->
         [reads |-> {"instance", "surface_instance", "surface",
                     "physical_device", "queue_family_indices",
                     "logical_device"},
          writes |-> {"swapchain_support_details", "surface_format",
                      "present_mode", "extent", "image_count",
                      "swapchain_device", "swapchain", "swapchain_images"}]
    [] step = "create_swapchain_image_views" ->
         [reads |-> {"logical_device", "swapchain_images", "surface_format"},
          writes |-> {"image_views"}]
    [] step = "create_render_pass" ->
         [reads |-> {"logical_device", "surface_format"},
          writes |-> {"render_pass"}]
    [] step = "create_graphics_pipeline" ->
         [reads |-> {"logical_device", "extent", "render_pass"},
          writes |-> {"vertices", "indices", "viewports", "scissors",
                      "graphics_pipelines"}]
    [] step = "create_framebuffers" ->
         [reads |-> {"extent", "image_views", "render_pass", "logical_device"},
          writes |-> {"framebuffers"}]
    [] step = "create_command_pool" ->
         [reads |-> {"queue_family_indices", "logical_device"},
          writes |-> {"command_pool"}]
    [] step = "create_vertex_buffer" ->
         [reads |-> {"vertices", "instance", "physical_device",
                     "logical_device", "command_pool", "graphics_queue"},
          writes |-> {"vertex_buffer"}]
    [] step = "create_index_buffer" ->
         [reads |-> {"indices", "instance", "physical_device",
                     "logical_device", "command_pool", "graphics_queue"},
          writes |-> {"index_buffer"}]
    [] step = "create_command_buffer" ->
         [reads |-> {"command_pool", "logical_device"},
          writes |-> {"command_buffer"}]
    [] step = "create_sync_objects" ->
         [reads |-> {"logical_device"},
          writes |-> {"image_available_semaphores",
                      "render_finished_semaphores", "in_flight_fences"}]

\* Engine::init up to and including step number `position` of its chain, on
\* Configuration::default(): the steps before have assigned their fields, and
\* the step panics (unwrap on None) or uses an empty vector when it reads a
\* field none of them has assigned.
EngineInitStep ==
  /\ pc = "idle"
  /\ \E position \in 1..Len(InitChain) :
       LET assigned == UNION { StepFields(InitChain[i]).writes :
                                 i \in 1..(position - 1) }
           unset == StepFields(InitChain[position]).reads \ assigned
       IN /\ Install(IF unset = {} THEN NewConfiguration
                     ELSE Panic(NewConfiguration))
          /\ op' = [fn |-> "init_step", step |-> InitChain[position],
                    position |-> position, assigned |-> assigned,
                    unset |-> unset]
  /\ pc' = "done"

\* window_resized(size) on a built configuration, in the variant of
\* engine/configuration.rs (and configuration/mod.rs) or of engine/mod.rs,
\* followed by the next recreation on a surface with a flexible extent.
WindowResized ==
  /\ pc = "idle"
  /\ \E width \in 1..MaxExtent, height \in 1..MaxExtent,
        capabilities \in FlexibleCapabilities,
        variant \in {"engine/configuration.rs", "engine/mod.rs"} :
       LET surface == Surface(capabilities,
                              <<SurfaceFormatKHR("R8G8B8A8_UNORM", "SRGB_NONLINEAR")>>,
                              <<"FIFO">>)
           built == Engine_init(surface)
           size == <<width, height>>
           resized == IF variant = "engine/mod.rs"
                      THEN window_resized_builder(built, size)
                      ELSE window_resized(built, size)
       IN /\ Install(recreate_swapchain(resized, surface, FALSE))
          /\ op' = [fn |-> "window_resized", variant |-> variant,
                    size |-> size, surface |-> surface,
                    before |-> built.cfg, resized |-> resized.cfg]
  /\ pc' = "done"

\* The next function is applied to a new Configuration.
SelectAgain ==
  /\ pc = "done"
  /\ configuration' = Default
  /\ frame' = 0
  /\ vk' = NoVulkan
  /\ calls' = <<>>
  /\ ghost' = NoGhost
  /\ status' = "running"
  /\ pc' = "idle"
  /\ op' = NoOp

SelectNext ==
  \/ ChooseSwapChainFormat
  \/ ChoosePresentMode
  \/ ChooseSwapExtent
  \/ CreateSwapChain
  \/ IsDeviceSuitable
  \/ IsDeviceSuitableTextured
  \/ PickPhysicalDevice
  \/ CreateInstance
  \/ AllocateBuffer
  \/ TransitionImageLayout
  \/ CreateBufferT
  \/ CopyBufferToImage
  \/ EngineInitStep
  \/ WindowResized
  \/ SelectAgain

SpecSelect == SelectInit /\ [][SelectNext]_vars

\* C24: once the process has exited through CloseRequested, no native object
\* created by Engine::init or since is left alive: all were destroyed before
\* the exit, and the last call before the exit destroyed the instance.
C24_EverythingDestroyedBeforeExit ==
  status = "exited" =>
    /\ vk.alive = {}
    /\ Len(calls) >= 2
    /\ calls[Len(calls)].fn = "exit"
    /\ calls[Len(calls) - 1].fn = "destroy_instance"

\* C25: draw_frame is not run for a window event other than a redraw
\* request: when window_event dispatches Resized, CloseRequested or
\* Destroyed, no draw_frame has run in that call of window_event.
C25_DrawFrameOnlyOnRedraw ==
  [][(DispatchResized \/ DispatchCloseRequested \/ DispatchDestroyed)
       => op.fn # "draw_frame"]_vars

C12_PreferredFormatOrFixedDefault ==
  op.fn = "choose_swap_chain_format" =>
    LET formats == op.details.formats
        preferred == { i \in 1..Len(formats) :
                         /\ formats[i].format = "R8G8B8A8_UNORM"
                         /\ formats[i].color_space = "SRGB_NONLINEAR" }
    IN IF preferred # {}
       THEN \E i \in preferred : op.result = formats[i]
       ELSE op.result = [format |-> "R8G8B8A8_UNORM",
                         color_space |-> "SRGB_NONLINEAR"]

\* The preferred format is offered, but not first, and it is the one chosen.
C12_Witness ==
  /\ op.fn = "choose_swap_chain_format"
  /\ Len(op.details.formats) = 2
  /\ op.details.formats[1].format = "B8G8R8A8_SRGB"
  /\ op.details.formats[2] = [format |-> "R8G8B8A8_UNORM",
                              color_space |-> "SRGB_NONLINEAR"]
  /\ op.result = op.details.formats[2]

\* C13: for every list of present modes, choose_present_mode returns MAILBOX
\* if and only if MAILBOX is in the list, and FIFO in every other case,
\* the empty list included.
C13_MailboxIffOffered ==
  op.fn = "choose_present_mode" =>
    LET present_modes == op.details.present_modes
        offered == \E i \in 1..Len(present_modes) : present_modes[i] = "MAILBOX"
    IN /\ (op.result = "MAILBOX") <=> offered
       /\ ~offered => op.result = "FIFO"

\* FIFO is listed before MAILBOX and MAILBOX is chosen.
C13_Witness ==
  /\ op.fn = "choose_present_mode"
  /\ op.details.present_modes = <<"FIFO", "MAILBOX">>
  /\ op.result = "MAILBOX"

\* C14: when the surface reports the flexible (match the window) extent,
\* choose_swap_extent(w, h) returns (w, h) unchanged for w, h inside
\* [min_image_extent, max_image_extent], and for values outside it returns
\* each component brought to the nearest end of its own range.
C14_FlexibleExtentClamped ==
  (/\ op.fn = "choose_swap_extent"
   /\ op.details.capabilities.current_extent = Extent2D(U32_MAX, U32_MAX)) =>
    LET lo == op.details.capabilities.min_image_extent
        hi == op.details.capabilities.max_image_extent
        w == op.buffer_width
        h == op.buffer_height
    IN /\ (lo.width <= w /\ w <= hi.width) => op.result.width = w
       /\ w < lo.width => op.result.width = lo.width
       /\ w > hi.width => op.result.width = hi.width
       /\ (lo.height <= h /\ h <= hi.height) => op.result.height = h
       /\ h < lo.height => op.result.height = lo.height
       /\ h > hi.height => op.result.height = hi.height

\* A request too narrow and too high: the width is raised to the minimum,
\* the height lowered to the maximum.
C14_Witness ==
  /\ op.fn = "choose_swap_extent"
  /\ op.details.capabilities.current_extent = Extent2D(U32_MAX, U32_MAX)
  /\ op.details.capabilities.min_image_extent = Extent2D(2, 1)
  /\ op.details.capabilities.max_image_extent = Extent2D(3, 2)
  /\ op.buffer_width = 0
  /\ op.buffer_height = 4
  /\ op.result = Extent2D(2, 2)

\* C15: whenever the surface reports a fixed current extent (not the
\* flexible one), choose_swap_extent returns exactly that current extent,
\* for every requested width and height.
C15_FixedExtentVerbatim ==
  (/\ op.fn = "choose_swap_extent"
   /\ op.details.capabilities.current_extent # Extent2D(U32_MAX, U32_MAX)) =>
    op.result = op.details.capabilities.current_extent

\* The window asks for another size than the surface dictates.
C15_Witness ==
  /\ op.fn = "choose_swap_extent"
  /\ op.details.capabilities.current_extent = Extent2D(2, 3)
  /\ op.buffer_width = 4
  /\ op.buffer_height = 0
  /\ op.result = Extent2D(2, 3)

\* C16: create_swap_chain requests image_count = min_image_count + 1,
\* lowered to max_image_count exactly when max_image_count is nonzero and
\* min_image_count + 1 exceeds it; whenever max_image_count = 0 or
\* max_image_count >= min_image_count, the count is at least min_image_count
\* and, when max_image_count is nonzero, at most max_image_count.
C16_ImageCountWithinCapabilities ==
  op.fn = "create_swap_chain" =>
    LET lo == op.surface.caps.min_image_count
        hi == op.surface.caps.max_image_count
        n == configuration.image_count
    IN /\ (hi # 0 /\ lo + 1 > hi) => n = hi
       /\ ~(hi # 0 /\ lo + 1 > hi) => n = lo + 1
       /\ (hi = 0 \/ hi >= lo) =>
            /\ n >= lo
            /\ hi # 0 => n <= hi

\* min_image_count = max_image_count: one image more is not allowed.
C16_Witness ==
  /\ op.fn = "create_swap_chain"
  /\ op.surface.caps.min_image_count = 2
  /\ op.surface.caps.max_image_count = 2
  /\ configuration.image_count = 2
  /\ Len(configuration.swapchain_images) = 2

\* The positions of the enumerated devices is_device_suitable accepts.
SuitablePositions ==
  { i \in 1..Len(op.physical_devices) :
      is_device_suitable(NewConfiguration, op.physical_devices[i]).suitable }

\* C18: pick_physical_device selects the first device in enumeration order
\* for which is_device_suitable holds, whatever comes after it, and returns
\* an error, selecting no device, when no enumerated device is suitable.
C18_FirstSuitableDeviceWins ==
  op.fn = "pick_physical_device" =>
    IF SuitablePositions = {}
    THEN op.result = "Err" /\ configuration.physical_device = None
    ELSE /\ op.result = "Ok"
         /\ \E i \in SuitablePositions :
              /\ \A j \in SuitablePositions : i <= j
              /\ configuration.physical_device = Some(op.physical_devices[i])

\* Two suitable devices are enumerated and the first is the one selected.
C18_Witness ==
  /\ op.fn = "pick_physical_device"
  /\ SuitablePositions = {1, 2}
  /\ configuration.physical_device = Some(op.physical_devices[1])

C20_NoAnisotropyRejected ==
  (/\ op.fn = "is_device_suitable_textured"
   /\ op.physical_device.sampler_anisotropy = 0) => ~op.result

\* A device that lacks nothing but anisotropic filtering is rejected.
C20_Witness ==
  /\ op.fn = "is_device_suitable_textured"
  /\ op.physical_device.sampler_anisotropy = 0
  /\ op.physical_device.queue_families =
       <<[graphics |-> TRUE, surface_support |-> TRUE]>>
  /\ op.physical_device.extensions = {"VK_KHR_swapchain"}
  /\ op.physical_device.formats # <<>>
  /\ op.physical_device.present_modes # <<>>
  /\ ~op.result

\* C21: whenever create_instance has run on a loader that lacks the
\* validation layer, it has completed without a panic, the configuration
\* holds no debug messenger, no debug messenger was created and the instance
\* create info it passed carried no debug messenger create info.
C21_NoDebugSinkWithoutValidationLayers ==
  (/\ pc = "done"
   /\ op.fn = "create_instance"
   /\ check_validation_layer_support(op.entry) = "Err")
  => /\ status # "panicked"
     /\ configuration.debug_messenger = Null
     /\ Count(calls, "create_debug_utils_messenger") = 0
     /\ \A i \in 1..Len(calls) :
          calls[i].fn = "create_instance" => calls[i].arg.p_next = <<>>

\* C22: whenever allocate_buffer has looked up a memory type, the index
\* find_memory_type returned is the lowest index whose bit is set in the
\* type filter and whose property flags contain every requested flag; when
\* no index satisfies both, it returned none and the allocation panicked.
C22_LowestTypeWithAllRequestedFlags ==
  (pc = "done" /\ op.fn = "allocate_buffer")
  => LET satisfying == { i \in 0..(Len(op.memory_types) - 1) :
                           /\ BitSet(op.type_filter, i)
                           /\ op.properties \subseteq op.memory_types[i + 1] }
     IN IF satisfying = {}
        THEN op.result = None /\ status = "panicked"
        ELSE /\ op.result = Some(CHOOSE i \in satisfying :
                                   \A j \in satisfying : i <= j)
             /\ status # "panicked"

RecreateSurfaces ==
  { Surface(Capabilities(lo, 0, current, Extent2D(1, 1), Extent2D(1024, 768)),
            formats, present_modes) :
      lo \in 1..(MaxImages - 1),
      current \in { Extent2D(U32_MAX, U32_MAX), Extent2D(800, 600) },
      formats \in { <<SurfaceFormatKHR("R8G8B8A8_UNORM", "SRGB_NONLINEAR")>>,
                    <<SurfaceFormatKHR("B8G8R8A8_SRGB", "SRGB_NONLINEAR"),
                      SurfaceFormatKHR("R8G8B8A8_UNORM", "SRGB_NONLINEAR")>> },
      present_modes \in { <<"FIFO">>, <<"FIFO", "MAILBOX">> } }

RecreateSizes == { <<800, 600>>, <<2000, 500>> }

\* What a swapchain was created with.
Chosen ==
  [extent |-> configuration.extent,
   surface_format |-> configuration.surface_format,
   image_count |-> configuration.image_count]

RecreateInit ==
  \E surface \in RecreateSurfaces :
    LET m == Engine_init(surface)
    IN /\ configuration = m.cfg
       /\ frame = m.frame
       /\ vk = m.vk
       /\ calls = m.calls
       /\ ghost = m.ghost
       /\ status = "running"
       /\ pc = "idle"
       /\ op = [fn |-> "init", surface |-> surface,
                previous |-> "none", previous_surface |-> surface,
                before |-> [extent |-> m.cfg.extent,
                            surface_format |-> m.cfg.surface_format,
                            image_count |-> m.cfg.image_count]]

\* recreate_swapchain, called on whatever the surface answers now.
Recreate ==
  /\ status = "running"
  /\ ghost.recreations < MaxRecreations
  /\ \E surface \in RecreateSurfaces :
       /\ Install(recreate_swapchain(Machine, surface, FALSE))
       /\ op' = [fn |-> "recreate_swapchain", surface |-> surface,
                 previous |-> op.fn, previous_surface |-> op.surface,
                 before |-> Chosen]
  /\ UNCHANGED pc

\* window_resized between two recreations.
Resize ==
  /\ status = "running"
  /\ op.fn # "window_resized"
  /\ \E size \in RecreateSizes :
       Install(window_resized(Machine, size))
  /\ op' = [fn |-> "window_resized", surface |-> op.surface,
            previous |-> op.fn, previous_surface |-> op.previous_surface,
            before |-> Chosen]
  /\ UNCHANGED pc

RecreateNext ==
  \/ Recreate
  \/ Resize

SpecRecreate == RecreateInit /\ [][RecreateNext]_vars

\* C17: recreate_swapchain called twice in a row, with the surface
\* capabilities unchanged and no window_resized in between, leaves the same
\* extent, surface format and image count after the second call as after
\* the first.
C17_RecreateTwiceSameSwapchain ==
  (/\ op.fn = "recreate_swapchain"
   /\ op.previous = "recreate_swapchain"
   /\ op.surface = op.previous_surface) => Chosen = op.before

\* Two recreations in a row on a surface that leaves the extent to the
\* window, after a resize: the second swapchain is a new one with the same
\* extent (the window's, clamped), format and image count.
C17_Witness ==
  /\ op.fn = "recreate_swapchain"
  /\ op.previous = "recreate_swapchain"
  /\ op.surface = op.previous_surface
  /\ op.surface.caps.current_extent = Extent2D(U32_MAX, U32_MAX)
  /\ ghost.recreations = 2
  /\ configuration.swapchain.id[1] = 3
  /\ Chosen = [extent |-> Extent2D(1024, 500),
               surface_format |-> SurfaceFormatKHR("R8G8B8A8_UNORM", "SRGB_NONLINEAR"),
               image_count |-> 3]
\* C27: one run of recreate_swapchain creates each rebuilt object once, in
\* the order swapchain, image views, render pass, pipeline, framebuffers,
\* command buffers (this configuration has no depth resources and no uniform
\* buffers), and afterwards the configuration holds every object the run
\* created: the one render pass alive is the configuration's.
C27_EachObjectRebuiltOnce ==
  op.fn = "recreate_swapchain" =>
    LET IsCreate(call) ==
          call.fn \in {"create_swapchain", "create_image_views",
                       "create_render_pass", "create_graphics_pipelines",
                       "create_framebuffers", "allocate_command_buffers"}
        creates == SelectSeq(calls, IsCreate)
    IN /\ [i \in 1..Len(creates) |-> creates[i].fn] =
            <<"create_swapchain", "create_image_views", "create_render_pass",
              "create_graphics_pipelines", "create_framebuffers",
              "allocate_command_buffers">>
       /\ { h \in vk.alive : h.kind = "render_pass" } = {configuration.render_pass}

\* C30: create_buffer::<T> copies exactly size_of(T) * len(data) bytes from
\* the host data into the mapped staging memory: the host copy touches as
\* many bytes as the vector holds, which is the size of the staging
\* allocation, of the mapping and of the staging-to-destination copy, for
\* every element size and length.
C30_CopiesExactlySizeOfTTimesLen ==
  (pc = "done" /\ op.fn = "create_buffer") =>
    LET Of(fn) == SelectSeq(calls, LAMBDA c : c.fn = fn)
        bytes == op.size_of_T * op.len
        host == Of("copy_to_nonoverlapping")
        mapped == Of("map_memory")
        staged == Of("create_buffer")
        device == Of("cmd_copy_buffer")
    IN /\ Len(host) = 1
       /\ host[1].arg.bytes = bytes
       /\ host[1].arg.bytes <= host[1].arg.source_bytes
       /\ host[1].arg.bytes <= mapped[1].arg.size
       /\ staged[1].arg.size = bytes
       /\ device # <<>> => device[1].arg.size = bytes

\* C31: for every call of the typed upload create_buffer, the staging buffer
\* has usage transfer-source and host-visible, host-coherent memory, and the
\* destination buffer has device-local memory and usage transfer-destination
\* plus exactly the flag of its caller (vertex for the vertex buffer, index
\* for the index buffer).
C31_UsageOfTheCaller ==
  (pc = "done" /\ op.fn = "create_buffer") =>
    LET Of(fn) == SelectSeq(calls, LAMBDA c : c.fn = fn)
        buffers == Of("create_buffer")
        memory == Of("allocate_memory")
        TypeOf(i) == PhysicalDeviceMemoryTypes[memory[i].arg.memory_type_index[1] + 1]
        requested == IF op.field = "vertex_buffer" THEN "VERTEX_BUFFER"
                     ELSE "INDEX_BUFFER"
    IN /\ Len(buffers) >= 1
       /\ buffers[1].arg.usage = {"TRANSFER_SRC"}
       /\ {"HOST_VISIBLE", "HOST_COHERENT"} \subseteq TypeOf(1)
       /\ Len(buffers) >= 2 =>
            /\ buffers[2].arg.usage = {"TRANSFER_DST", requested}
            /\ "DEVICE_LOCAL" \in TypeOf(2)

\* C32: every command buffer handed out by single_time_command is, on every
\* path of its caller (copy_buffer, transition_image_layout,
\* copy_buffer_to_image), error returns included, ended, submitted to the
\* graphics queue, waited for with a queue-idle wait and freed, in this
\* order; none stays allocated or recording after the caller has returned.
C32_SingleTimeCommandAlwaysEnded ==
  (/\ pc = "done"
   /\ op.fn \in {"create_buffer", "transition_image_layout",
                 "copy_buffer_to_image"}) =>
    /\ \A h \in vk.alive : h.kind # "single_time_command"
    /\ \A i \in 1..Len(calls) :
         calls[i].fn = "begin_command_buffer" =>
           \E e \in (i + 1)..Len(calls) :
             /\ calls[e].fn = "end_command_buffer"
             /\ calls[e].arg = calls[i].arg
             /\ e + 3 <= Len(calls)
             /\ calls[e + 1].fn = "queue_submit"
             /\ calls[e + 1].arg = <<calls[i].arg>>
             /\ calls[e + 2].fn = "queue_wait_idle"
             /\ calls[e + 2].arg = "graphics_queue"
             /\ calls[e + 3].fn = "free_command_buffers"
             /\ calls[e + 3].arg = calls[i].arg

\* C33: the device-suitability check rejects every device for which the
\* surface reports an empty supported-format list or an empty present-mode
\* list: both must be non-empty for the device to be accepted.
C33_EmptyFormatsOrModesRejected ==
  (/\ op.fn \in {"is_device_suitable", "is_device_suitable_textured"}
   /\ \/ op.physical_device.formats = <<>>
      \/ op.physical_device.present_modes = <<>>) => ~op.result

\* C35: in the Engine::init build chain every step runs only after every
\* field it reads has been assigned by an earlier step: no step unwraps a
\* handle that is still unset, and the uploads find their data filled in.
C35_InitStepsReadOnlyCreatedObjects ==
  op.fn = "init_step" => (op.unset = {} /\ status # "panicked")

\* The vertex upload has run, after the device, the queue, the command pool
\* and the vertex data were set.
C35_Witness ==
  /\ pc = "done"
  /\ op.fn = "init_step"
  /\ op.step = "create_vertex_buffer"
  /\ {"logical_device", "graphics_queue", "command_pool", "vertices"}
       \subseteq op.assigned
  /\ status = "running"

\* C36: whenever draw_frame resets and re-records the command buffer of its
\* slot, no submission that uses that command buffer is still executing: the
\* fence wait at the start of the frame was satisfied by the completion of
\* the previous submission of the slot (or by the initial signaled state),
\* not by the signal requested from acquire_next_image.
C36_ResetOnlyAfterCompletion ==
  [][(pc = "idle" /\ pc' = "dispatch") =>
       \A i \in 1..Len(calls') :
         calls'[i].fn = "reset_command_buffer" =>
           \A k \in 1..Len(vk.pending) :
             vk.pending[k].command_buffer # calls'[i].arg]_vars

\* C37: assuming the GPU eventually completes every submission, whenever a
\* draw_frame is about to start, its fence wait eventually returns and the
\* frame goes on, whatever completed frames, frames aborted at acquisition,
\* resizes and recreations came before.
C37_FenceWaitEventuallyReturns ==
  (status = "running" /\ pc = "idle") ~> (pc = "dispatch")

\* C39: once the shutdown destroy has run (on a Destroyed or CloseRequested
\* window event), no later step is a draw_frame and no later step is a
\* second destroy, in whatever order window events arrive.
C39_NothingAfterShutdownDestroy ==
  [][ghost.shutdown =>
       ~(DrawFrame \/ DispatchDestroyed \/ DispatchCloseRequested)]_vars

\* C40: window_resized(size) sets the pending-resize flag, stores
\* width = size.width and height = size.height and changes no other field,
\* and the next recreation on a surface with a flexible extent whose bounds
\* admit the notified size uses exactly that size as the swapchain extent.
C40_WindowResizedStoresTheSize ==
  op.fn = "window_resized" =>
    LET capabilities == op.surface.caps
    IN /\ op.resized.window_resized
       /\ op.resized.width = op.size[1]
       /\ op.resized.height = op.size[2]
       /\ \A field \in DOMAIN op.before \ {"window_resized", "width", "height"} :
            op.resized[field] = op.before[field]
       /\ (/\ capabilities.min_image_extent.width <= op.size[1]
           /\ op.size[1] <= capabilities.max_image_extent.width
           /\ capabilities.min_image_extent.height <= op.size[2]
           /\ op.size[2] <= capabilities.max_image_extent.height)
            => configuration.extent = Extent2D(op.size[1], op.size[2])

(* --------- the texturing configuration (engine/configuration/mod.rs) ---- *)
\* MAX_FLIGHT_FENCES of engine/configuration/mod.rs.
MAX_FLIGHT_FENCES_textured == 3

\* create_depth_resources: the depth image with its memory, its view, and
\* the transition of the image to DEPTH_STENCIL_ATTACHMENT_OPTIMAL (unwrapped).
create_depth_resources(m) ==
  LET depth_image == NewHandle(m, "depth_image", <<>>)
      m1 == Log(Created(m, depth_image), "create_image", depth_image)
      depth_image_memory == NewHandle(m1, "depth_image_memory", <<depth_image>>)
      m2 == Log(Created(m1, depth_image_memory), "allocate_memory",
                depth_image_memory)
      depth_image_view == NewHandle(m2, "depth_image_view", <<depth_image>>)
      m3 == Log(Created(m2, depth_image_view), "create_image_view",
                depth_image_view)
      m4 == [m3 EXCEPT !.cfg.depth_image = depth_image,
                       !.cfg.depth_image_memory = depth_image_memory,
                       !.cfg.depth_image_view = depth_image_view]
      transitioned ==
        transition_image_layout(m4, depth_image, "D32_SFLOAT", "UNDEFINED",
                                "DEPTH_STENCIL_ATTACHMENT_OPTIMAL")
  IN IF transitioned.result = "Ok" THEN transitioned.m ELSE Panic(transitioned.m)

\* create_framebuffers: one framebuffer per image view, each with that view
\* and the depth image view attached, pushed onto framebuffers.
create_framebuffers_textured(m) ==
  LET views == m.cfg.image_views
      made == [i \in 1..Len(views) |->
                 Handle("framebuffer", <<m.vk.generation, i>>,
                        <<views[i], m.cfg.depth_image_view, m.cfg.render_pass>>)]
  IN Log([m EXCEPT !.cfg.framebuffers = @ \o made,
                   !.vk.alive = @ \cup Range(made)],
         "create_framebuffers", Len(made))

\* create_uniform_buffer: both vectors are cleared, then one buffer and its
\* memory are created and pushed per swapchain image.
create_uniform_buffer(m) ==
  LET n == Len(m.cfg.swapchain_images)
      buffers == [i \in 1..n |->
                    Handle("uniform_buffer", <<m.vk.generation, i>>, <<>>)]
      memory == [i \in 1..n |->
                   Handle("uniform_buffer_memory", <<m.vk.generation, i>>,
                          <<buffers[i]>>)]
  IN Log([m EXCEPT !.cfg.uniform_buffers = buffers,
                   !.cfg.uniform_buffer_memory = memory,
                   !.vk.alive = @ \cup Range(buffers) \cup Range(memory)],
         "create_uniform_buffer", n)

\* create_descriptor_sets: MAX_FLIGHT_FENCES sets are allocated; set i is
\* written with uniform_buffers[i] (the buffer the set refers to from then
\* on), an index out of bounds (a panic) when there are fewer uniform buffers
\* than sets.
create_descriptor_sets(m) ==
  LET allocated == [i \in 1..MAX_FLIGHT_FENCES_textured |->
                      Handle("descriptor_set", <<m.vk.generation, i>>,
                             IF i <= Len(m.cfg.uniform_buffers)
                             THEN <<m.cfg.uniform_buffers[i]>>
                             ELSE <<>>)]
      m1 == Log([m EXCEPT !.cfg.descriptor_sets = allocated,
                          !.vk.alive = @ \cup Range(allocated)],
                "allocate_descriptor_sets", MAX_FLIGHT_FENCES_textured)
  IN IF Len(m.cfg.uniform_buffers) < MAX_FLIGHT_FENCES_textured
     THEN Panic(m1)
     ELSE Log(m1, "update_descriptor_sets", MAX_FLIGHT_FENCES_textured)

create_command_buffer_textured(m) ==
  LET made == [i \in 1..MAX_FLIGHT_FENCES_textured |->
                 Handle("command_buffer", <<m.vk.generation, i>>,
                        <<m.cfg.command_pool.id>>)]
  IN Log([m EXCEPT !.cfg.command_buffer = made,
                   !.vk.alive = @ \cup Range(made)],
         "allocate_command_buffers", MAX_FLIGHT_FENCES_textured)

\* destroy_swapchain: the depth image view, the depth memory and the depth
\* image, the uniform buffers and their memory, then the framebuffers, the
\* command buffers, the pipeline, the render pass, the image views and the
\* swapchain.
destroy_swapchain_textured(m) ==
  LET t1 == Destroyed(m, "destroy_image_view", m.cfg.depth_image_view)
      t2 == Destroyed(t1, "free_memory", t1.cfg.depth_image_memory)
      t3 == Destroyed(t2, "destroy_image", t2.cfg.depth_image)
      t4 == DestroyedAll(t3, "destroy_buffer", t3.cfg.uniform_buffers)
      t5 == DestroyedAll(t4, "free_memory", t4.cfg.uniform_buffer_memory)
      m1 == [DestroyedAll(t5, "destroy_framebuffer", t5.cfg.framebuffers)
               EXCEPT !.cfg.framebuffers = <<>>]
      m2 == DestroyedAll(m1, "free_command_buffers", m1.cfg.command_buffer)
      m3 == Destroyed(m2, "destroy_pipeline", m2.cfg.graphics_pipelines[1])
      m4 == Destroyed(m3, "destroy_render_pass", m3.cfg.render_pass)
      m5 == [DestroyedAll(m4, "destroy_image_view", m4.cfg.image_views)
               EXCEPT !.cfg.image_views = <<>>]
      m6 == Destroyed(m5, "destroy_swapchain", m5.cfg.swapchain)
  IN [m6 EXCEPT !.cfg.in_flight_fences =
                   ResizeFences(@, Len(m6.cfg.swapchain_images))]

recreate_swapchain_textured(m, surface) ==
  LET m0 == Log(m, "recreate_swapchain", Null)
      rebuilt ==
        create_depth_resources(
          create_graphics_pipeline(
            create_render_pass(
              create_swapchain_image_views(
                create_swap_chain(
                  destroy_swapchain_textured(device_wait_idle(m0)),
                  surface)))))
  IN IF rebuilt.panicked
     THEN rebuilt
     ELSE [create_command_buffer_textured(
             create_uniform_buffer(create_framebuffers_textured(rebuilt)))
             EXCEPT !.ghost.recreations = @ + 1]

\* record_command_buffer: framebuffers.get(image_index).expect(..), and the
\* descriptor set bound is descriptor_sets[image_index].
record_command_buffer_textured(m, command_buffer, image_index) ==
  LET m1 == Log(m, "begin_command_buffer", command_buffer)
  IN IF image_index + 1 > Len(m.cfg.framebuffers)
     THEN Panic(m1)
     ELSE LET m2 == Log(m1, "cmd_begin_render_pass",
                        m.cfg.framebuffers[image_index + 1])
          IN IF image_index + 1 > Len(m.cfg.descriptor_sets)
             THEN Panic(m2)
             ELSE Log(Log(m2, "cmd_bind_descriptor_sets",
                          m.cfg.descriptor_sets[image_index + 1]),
                      "end_command_buffer", command_buffer)

\* Surfaces that give the swapchain at least as many images as there are
\* descriptor sets.
TexturedSurfaces ==
  { Surface(Capabilities(lo, 0, current, Extent2D(1, 1), Extent2D(4096, 4096)),
            <<SurfaceFormatKHR("R8G8B8A8_UNORM", "SRGB_NONLINEAR")>>, <<"FIFO">>) :
      lo \in (MAX_FLIGHT_FENCES_textured - 1)..MaxImages,
      current \in { Extent2D(800, 600), Extent2D(U32_MAX, U32_MAX) } }

\* The texturing configuration after its builder chain has run on a surface.
TexturedStart ==
  \E surface \in TexturedSurfaces :
    LET default == [depth_image |-> Null, depth_image_memory |-> Null,
                    depth_image_view |-> Null, uniform_buffers |-> <<>>,
                    uniform_buffer_memory |-> <<>>,
                    descriptor_sets |-> <<>>] @@ Default
        m0 == [cfg |-> default, frame |-> 0, vk |-> NoVulkan,
               calls |-> <<>>, panicked |-> FALSE, ghost |-> NoGhost]
        d1 == create_swap_chain(create_logical_device(m0), surface)
        d2 == create_render_pass(create_swapchain_image_views(d1))
        d3 == create_command_pool(create_graphics_pipeline(d2))
        d4 == create_framebuffers_textured(create_depth_resources(d3))
        d5 == create_descriptor_sets(create_uniform_buffer(d4))
        built == create_command_buffer_textured(d5)
        m == [built EXCEPT !.calls = <<>>]
    IN /\ configuration = m.cfg
       /\ frame = m.frame
       /\ vk = m.vk
       /\ calls = m.calls
       /\ ghost = m.ghost
       /\ status = "running"
       /\ pc = "idle"
       /\ op = [fn |-> "init", surface |-> surface]

RecreateTextured ==
  /\ status = "running"
  /\ ghost.recreations < MaxRecreations
  /\ \E surface \in TexturedSurfaces :
       /\ Install(recreate_swapchain_textured(Machine, surface))
       /\ op' = [fn |-> "recreate_swapchain", surface |-> surface]
  /\ UNCHANGED pc

\* record_command_buffer for the command buffer of a frame slot and an image
\* index the swapchain returned.
RecordTextured ==
  /\ status = "running"
  /\ \E current_frame \in 0..(MAX_FLIGHT_FENCES_textured - 1),
        image_index \in 0..(Len(configuration.swapchain_images) - 1) :
       /\ Install(record_command_buffer_textured(
                    Machine, configuration.command_buffer[current_frame + 1],
                    image_index))
       /\ op' = [fn |-> "record_command_buffer",
                 current_frame |-> current_frame, image_index |-> image_index]
  /\ UNCHANGED pc

TexturedNext ==
  \/ RecreateTextured
  \/ RecordTextured

SpecTextured == TexturedStart /\ [][TexturedNext]_vars

\* C26: in every run of destroy_swapchain (the calls of recreate_swapchain
\* up to the creation of the new swapchain) the framebuffers, command buffers,
\* pipeline, render pass, image views and swapchain are destroyed in that
\* order, and nothing attached to a framebuffer (an image view, the render
\* pass) is destroyed before that framebuffer.
C26_DestroyOrder ==
  op.fn = "recreate_swapchain" =>
    LET DestroyRank(fn) ==
          CASE fn = "destroy_framebuffer" -> 1
            [] fn = "free_command_buffers" -> 2
            [] fn = "destroy_pipeline" -> 3
            [] fn = "destroy_render_pass" -> 4
            [] fn = "destroy_image_view" -> 5
            [] fn = "destroy_swapchain" -> 6
            [] OTHER -> 0
        last == FirstIndex(calls, "create_swapchain") - 1
        ranked == { i \in 1..last : DestroyRank(calls[i].fn) > 0 }
        framebuffers == { i \in 1..last : calls[i].fn = "destroy_framebuffer" }
    IN /\ \A r \in 1..6 : \E i \in ranked : DestroyRank(calls[i].fn) = r
       /\ \A i \in ranked, j \in ranked :
            i < j => DestroyRank(calls[i].fn) <= DestroyRank(calls[j].fn)
       /\ \A j \in framebuffers :
            \A i \in 1..(j - 1) :
              \A k \in 1..Len(calls[j].arg.refs) :
                calls[i].fn \in {"destroy_image_view", "destroy_render_pass"}
                  => calls[i].arg # calls[j].arg.refs[k]

\* C29: whenever record_command_buffer has run for the command buffer of a
\* frame slot and an image index of the swapchain, it has not panicked and
\* the descriptor set it bound is the one of that frame slot.
C29_DescriptorSetOfFrameSlot ==
  op.fn = "record_command_buffer" =>
    /\ status # "panicked"
    /\ Calls("cmd_bind_descriptor_sets") = 1
    /\ calls[FirstIndex(calls, "cmd_bind_descriptor_sets")].arg =
         configuration.descriptor_sets[op.current_frame + 1]

\* C34: in every run of destroy_swapchain (the calls of recreate_swapchain up
\* to the creation of the new swapchain) an image or buffer is destroyed
\* before the memory that backs it is freed, an image view is destroyed
\* before the image it views, and an image view is destroyed only after the
\* framebuffers that attach it.
C34_ReverseDependencyOrder ==
  op.fn = "recreate_swapchain" =>
    LET last == FirstIndex(calls, "create_swapchain") - 1
        Refs(i) == { calls[i].arg.refs[k] : k \in 1..Len(calls[i].arg.refs) }
    IN \A i \in 1..last :
         \A j \in 1..last :
           /\ (/\ calls[i].fn = "free_memory"
               /\ calls[j].fn \in {"destroy_image", "destroy_buffer"}
               /\ calls[j].arg \in Refs(i)) => j < i
           /\ (/\ calls[i].fn = "destroy_image_view"
               /\ calls[j].fn = "destroy_image"
               /\ calls[j].arg \in Refs(i)) => i < j
           /\ (/\ calls[i].fn = "destroy_image_view"
               /\ calls[j].fn = "destroy_framebuffer"
               /\ calls[i].arg \in Refs(j)) => j < i

\* C38: after every swapchain recreation of the texturing configuration,
\* each descriptor set that record_command_buffer can bind refers to a
\* uniform buffer that is alive: none still points at a uniform buffer that
\* destroy_swapchain destroyed.
C38_DescriptorSetsReferToLiveBuffers ==
  (op.fn = "recreate_swapchain" /\ status = "running") =>
    \A i \in 1..Len(configuration.descriptor_sets) :
      LET set == configuration.descriptor_sets[i]
      IN /\ set.refs # <<>>
         /\ \A k \in 1..Len(set.refs) : set.refs[k] \in vk.alive

====
